---- MODULE Spec2Model ----
(***************************************************************************)
(* Planning orchestration engine of pm (src/pm/core/planner): the phase    *)
(* state machine of PlannerOrchestrator, the checkpoint gate of            *)
(* CheckpointManager and the planning documents the phases write.          *)
(*                                                                         *)
(* Conventions.  A Python Optional is a sequence of length 0 (None) or 1   *)
(* (the value), so that absent and present values stay comparable.  An     *)
(* optional string id uses the reserved string NoneId for None; the empty  *)
(* string "" is a real (falsy) Python string.  datetime.now() is a clock   *)
(* `now` that never runs backwards: an operation that reads it sees the    *)
(* value of the previous read or a later one.  0 stands for an absent      *)
(* datetime.                                                               *)
(***************************************************************************)
EXTENDS Integers, Sequences, FiniteSets, TLC

VARIABLES
    session,      \* PlannerOrchestrator._session            : Optional[PlanningSession]
    disk,         \* planning/session.yaml                   : Optional[dict]
    tech_stack,   \* planning/tech-stack.yaml                : Optional[TechStack]
    layers_yaml,  \* planning/layers.yaml                    : Optional[LayerDefinition]
    groups_yaml,  \* planning/groups/<layer_id>/groups.yaml  : layer id -> Optional[GroupDefinition]
    now,          \* datetime.now(), the value last read
    runs,         \* number of phase runs that succeeded so far
    last,         \* what the last call of the public interface did and returned
    flights,      \* the phase-run generators started and not yet exhausted
    planned,      \* the steps whose phase run returned success (kept where a
                  \* property speaks of earlier runs, empty elsewhere)
    context,      \* ConversationManager state: of the REPL's manager ("repl") and of
                  \* the manager the latest phase run created ("phase")
    gen,          \* the chat_stream generator being consumed     : Optional
    heard,        \* what the consumer of the last chat_stream / PhaseRunner.run got
    input,        \* the argument a function under study is called with : Optional
    output        \* what it returned                                  : Optional

vars == <<session, disk, tech_stack, layers_yaml, groups_yaml, now, runs, last, flights,
          planned, context, gen, heard, input, output>>

\* The variables of the planner and those of the conversation layer.
planVars == <<session, disk, tech_stack, layers_yaml, groups_yaml, now, runs, last, flights,
             planned>>
chatVars == <<context, gen, heard>>
pureVars == <<input, output>>

\* ------------------------------------------------------------------ bounds
\* Largest value of the clock: the clock advances only while now < MaxClock.
MaxClock == 2
\* continue_planning is called only while fewer phase runs have succeeded.
MaxRuns == 3
\* With the ledger kept, continue_planning is called only while fewer phase
\* runs have succeeded: an architect run, two layer runs and a group run fit.
MaxLedgerRuns == 4
\* Largest number of phase-run generators a caller holds open at a time.
MaxFlights == 2
\* Largest number of fragments the LLM transport delivers for one request.
MaxFragments == 2
\* chat_stream / PhaseRunner.run is called only while fewer calls were made.
MaxCalls == 2
\* Largest number of completed exchanges in the history a REPL conversation
\* starts from.
MaxHistory == 5
\* Largest number of fenced blocks in a reply handed to a parser.
MaxBlocks == 2
\* Longest list inside a document that is written and read back.
MaxItems == 1

\* ------------------------------------------------------------- vocabulary
NoneId == "<None>"
None == <<>>
Some(x) == <<x>>
IsNone(o) == Len(o) = 0
Val(o) == o[1]

NOT_STARTED == "not_started"
ARCHITECT == "architect"
LAYER_PLANNING == "layer_planning"
GROUP_PLANNING == "group_planning"
COMPLETED == "completed"

PENDING == "pending"
APPROVED == "approved"
REJECTED == "rejected"

GREENFIELD == "greenfield"
BROWNFIELD == "brownfield"

Range(seq) == {seq[i] : i \in 1..Len(seq)}

\* ------------------------------------------------------------ input sets
LayerIds == {"L1", "L2"}
GroupIds == {"g1", "g2"}

Layer(id, order) == [id |-> id, order |-> order]
Group(id, order, deps) == [id |-> id, order |-> order, depends_on_groups |-> deps]

\* LayerDefinition.layers values an architect reply can carry: no layer, one
\* layer, and two layers listed against their numeric order.
LayerDocs ==
    { <<>>,
      <<Layer("L1", 1)>>,
      <<Layer("L2", 2), Layer("L1", 1)>> }

\* GroupDefinition.groups values a layer-planner reply can carry: no group,
\* one group, and g2, which depends on g1, listed before g1.
GroupDocs ==
    { <<>>,
      <<Group("g1", 1, <<>>)>>,
      <<Group("g2", 2, <<"g1">>), Group("g1", 1, <<>>)>> }

\* Feedback texts the user gives with an approval or a rejection.
Feedbacks == {"fb"}

\* Project kinds start_planning is called with.
Greenfield == {TRUE}

\* Session ids f"plan-{uuid4().hex[:8]}" can produce.
SessionIds == {"plan-a"}

\* What fetch_tech_stack_docs does when the architect phase calls it: it
\* returns, or an exception leaves it.
FETCHED == "fetched"
FETCH_RAISES == "fetch raises"

\* A reply of the LLM to the architect prompt: the stream raises, or it ends
\* and the text holds a tech-stack block or not, a layers block or not.
\* With both blocks the documentation of the stack is fetched, and `fetch`
\* is what the fetch does.
ArchReplies ==
    [raises : {TRUE}, tech : {FALSE}, layers : {None}, fetch : {FETCHED}]
    \cup [raises : {FALSE}, tech : BOOLEAN, layers : {None} \cup {Some(d) : d \in LayerDocs},
          fetch : {FETCHED}]
    \cup [raises : {FALSE}, tech : {TRUE}, layers : {Some(d) : d \in LayerDocs},
          fetch : {FETCH_RAISES}]

\* The groups blocks a layer-planner reply can hold: the block carries its
\* own layer_id, which is "" when the reply gives the key an empty value.
LayerBlocks ==
    {[layer_id |-> l, groups |-> g] : l \in LayerIds, g \in GroupDocs}
    \cup {[layer_id |-> "", groups |-> <<Group("g1", 1, <<>>)>>]}

\* A reply to the layer-planner prompt: raises, or holds a groups block or not.
LayerReplies ==
    [raises : {TRUE}, block : {None}]
    \cup [raises : {FALSE}, block : {None} \cup {Some(b) : b \in LayerBlocks}]

\* A reply to the group-planner prompt: raises, or holds n task blocks.
TaskCounts == {0, 2}
GroupReplies ==
    [raises : {TRUE}, tasks : {0}] \cup [raises : {FALSE}, tasks : TaskCounts]

\* ------------------------------------------------------------ data model
\* models/planner.py Checkpoint; id is the NNN of "cp-NNN", description the
\* count its text reports.  The `created` stamps of checkpoints, sessions
\* and documents are written once and never read or rewritten by the
\* planner; the records leave them out.
Checkpoint(id, phase, description, artifacts) ==
    [id |-> id, phase |-> phase, description |-> description, status |-> PENDING,
     approved_at |-> 0, feedback |-> "", artifacts |-> artifacts]

\* models/planner.py PlanningSession, as start_planning constructs it.
PlanningSession(id, project_type, t) ==
    [id |-> id, project_type |-> project_type, current_phase |-> NOT_STARTED,
     updated |-> t,
     current_layer_id |-> NoneId, current_group_id |-> NoneId,
     completed_layers |-> <<>>, completed_groups |-> <<>>, checkpoints |-> <<>>]

\* Checkpoint.to_dict: the enum values, the stamp as ISO text or null.
CheckpointToDict(c) ==
    [id |-> c.id, phase |-> c.phase, description |-> c.description,
     status |-> c.status,
     approved_at |-> IF c.approved_at # 0 THEN Some(c.approved_at) ELSE None,
     feedback |-> c.feedback, artifacts |-> c.artifacts]

\* Checkpoint.from_dict.
CheckpointFromDict(data) ==
    [id |-> data.id, phase |-> data.phase, description |-> data.description,
     status |-> data.status,
     approved_at |-> IF ~IsNone(data.approved_at) THEN Val(data.approved_at) ELSE 0,
     feedback |-> data.feedback, artifacts |-> data.artifacts]

\* PlanningSession.to_dict: an unset pointer is written as null.
PlanningSessionToDict(s) ==
    [id |-> s.id, project_type |-> s.project_type, current_phase |-> s.current_phase,
     updated |-> s.updated,
     current_layer_id |-> IF s.current_layer_id = NoneId THEN None
                          ELSE Some(s.current_layer_id),
     current_group_id |-> IF s.current_group_id = NoneId THEN None
                          ELSE Some(s.current_group_id),
     completed_layers |-> s.completed_layers,
     completed_groups |-> s.completed_groups,
     checkpoints |-> [i \in 1..Len(s.checkpoints) |-> CheckpointToDict(s.checkpoints[i])]]

\* PlanningSession.from_dict.
PlanningSessionFromDict(data) ==
    [id |-> data.id, project_type |-> data.project_type,
     current_phase |-> data.current_phase,
     updated |-> data.updated,
     current_layer_id |-> IF IsNone(data.current_layer_id) THEN NoneId
                          ELSE Val(data.current_layer_id),
     current_group_id |-> IF IsNone(data.current_group_id) THEN NoneId
                          ELSE Val(data.current_group_id),
     completed_layers |-> data.completed_layers,
     completed_groups |-> data.completed_groups,
     checkpoints |-> [i \in 1..Len(data.checkpoints) |->
                          CheckpointFromDict(data.checkpoints[i])]]

\* Index of the first element of seq satisfying Test, 0 when there is none
\* (the Python loops `for x in xs: if test(x): return x`).
FirstIndex(seq, Test(_)) ==
    IF \E i \in 1..Len(seq) : Test(seq[i])
    THEN CHOOSE i \in 1..Len(seq) : Test(seq[i]) /\ \A j \in 1..(i - 1) : ~Test(seq[j])
    ELSE 0

\* get_pending_checkpoint finding no checkpoint, whatever their status.
GetPendingCheckpointNever(s) == None

\* PlanningSession.get_pending_checkpoint: the first PENDING checkpoint.
GetPendingCheckpoint(s) ==
    LET IsPending(c) == c.status = PENDING
        i == FirstIndex(s.checkpoints, IsPending)
    IN IF i = 0 THEN None ELSE Some(s.checkpoints[i])

\* The id text of the checkpoint numbered n, f"cp-{n:03d}": at least three
\* digits, zeros in front.
CheckpointId(n) ==
    "cp-" \o (IF n < 10 THEN "00" ELSE IF n < 100 THEN "0" ELSE "") \o ToString(n)

\* add_checkpoint numbering the new checkpoint after the checkpoints that
\* were not rejected.
AddCheckpointSkipsRejected(s, phase, description, artifacts, t) ==
    [s EXCEPT !.checkpoints =
                  Append(@, Checkpoint(
                      Cardinality({i \in 1..Len(@) : @[i].status # REJECTED}) + 1,
                      phase, description, artifacts)),
              !.updated = t]

\* add_checkpoint dropping the artifact list it is given.
AddCheckpointNoArtifacts(s, phase, description, artifacts, t) ==
    [s EXCEPT !.checkpoints = Append(@, Checkpoint(Len(@) + 1, phase, description, <<>>)),
              !.updated = t]

\* PlanningSession.add_checkpoint.
AddCheckpoint(s, phase, description, artifacts, t) ==
    [s EXCEPT !.checkpoints = Append(@, Checkpoint(Len(@) + 1, phase, description, artifacts)),
              !.updated = t]

\* ----------------------------------------------------- checkpoint manager
\* The world an orchestrator call reads and writes.
World ==
    [session |-> session, disk |-> disk, tech_stack |-> tech_stack,
     layers_yaml |-> layers_yaml, groups_yaml |-> groups_yaml]

\* CheckpointManager.load_session.
LoadSession(w) ==
    IF IsNone(w.disk) THEN None ELSE Some(PlanningSessionFromDict(Val(w.disk)))

\* PlannerOrchestrator.session (property): lazily loads the session file.
Loaded(w) == IF IsNone(w.session) THEN [w EXCEPT !.session = LoadSession(w)] ELSE w

\* CheckpointManager.save_session: stamps `updated`, writes session.yaml.
SaveSession(w, t) ==
    LET s == [Val(w.session) EXCEPT !.updated = t]
    IN [w EXCEPT !.session = Some(s), !.disk = Some(PlanningSessionToDict(s))]

\* CheckpointManager.create_checkpoint.
CreateCheckpoint(w, phase, description, artifacts, t) ==
    SaveSession([w EXCEPT !.session =
                     Some(AddCheckpoint(Val(w.session), phase, description, artifacts, t))], t)

\* can_proceed letting every caller through.
CanProceedAlways(s) == TRUE

\* CheckpointManager.can_proceed.
CanProceed(s) == IsNone(GetPendingCheckpoint(s))

\* approve_checkpoint taking the first checkpoint of the list, whatever
\* its id.
CmApproveCheckpointFirst(w, checkpoint_id, feedback, t) ==
    LET s == Val(w.session)
    IN IF Len(s.checkpoints) = 0 THEN [w |-> w, found |-> 0]
       ELSE [w |-> SaveSession([w EXCEPT !.session = Some(
                        [s EXCEPT !.checkpoints[1].status = APPROVED,
                                  !.checkpoints[1].approved_at = t,
                                  !.checkpoints[1].feedback = feedback])], t),
             found |-> 1]

\* CheckpointManager.approve_checkpoint: the first checkpoint with that id.
CmApproveCheckpoint(w, checkpoint_id, feedback, t) ==
    LET s == Val(w.session)
        HasId(c) == c.id = checkpoint_id
        i == FirstIndex(s.checkpoints, HasId)
    IN IF i = 0 THEN [w |-> w, found |-> 0]
       ELSE [w |-> SaveSession([w EXCEPT !.session = Some(
                        [s EXCEPT !.checkpoints[i].status = APPROVED,
                                  !.checkpoints[i].approved_at = t,
                                  !.checkpoints[i].feedback = feedback])], t),
             found |-> i]

\* CheckpointManager.reject_checkpoint.
CmRejectCheckpoint(w, checkpoint_id, feedback, t) ==
    LET s == Val(w.session)
        HasId(c) == c.id = checkpoint_id
        i == FirstIndex(s.checkpoints, HasId)
    IN IF i = 0 THEN [w |-> w, found |-> 0]
       ELSE [w |-> SaveSession([w EXCEPT !.session = Some(
                        [s EXCEPT !.checkpoints[i].status = REJECTED,
                                  !.checkpoints[i].feedback = feedback])], t),
             found |-> i]

\* ------------------------------------------------------ context builder
\* ContextBuilder.load_layers / load_groups: the document or None.
LoadLayers(w) == w.layers_yaml
LoadGroups(w, layer_id) ==
    IF layer_id \in DOMAIN w.groups_yaml THEN w.groups_yaml[layer_id] ELSE None

\* ----------------------------------------------------------------- phases
\* TechnicalArchitectPhase.parse_output: success needs both blocks.
ArchitectParseOutput(reply) ==
    [success |-> reply.tech /\ ~IsNone(reply.layers),
     tech_stack |-> reply.tech, layers |-> reply.layers]

\* TechnicalArchitectPhase.save_artifacts.
ArchitectSaveArtifacts(w, out) ==
    LET w1 == IF out.tech_stack
              THEN [w EXCEPT !.tech_stack = Some("tech-stack")] ELSE w
        w2 == IF ~IsNone(out.layers)
              THEN [w1 EXCEPT !.layers_yaml = Some([layers |-> Val(out.layers)])]
              ELSE w1
    IN [w |-> w2,
        saved |-> (IF out.tech_stack THEN <<"planning/tech-stack.yaml">> ELSE <<>>)
                  \o (IF ~IsNone(out.layers) THEN <<"planning/layers.yaml">> ELSE <<>>)]

\* LayerPlannerPhase.parse_output: success as soon as the block parses;
\* output.layer_id is the block's own layer_id.
LayerParseOutput(reply) ==
    IF IsNone(reply.block)
    THEN [success |-> FALSE, layer_id |-> "", groups |-> None]
    ELSE [success |-> TRUE, layer_id |-> Val(reply.block).layer_id,
          groups |-> Some(Val(reply.block))]

\* LayerPlannerPhase.save_artifacts: writes under output.layer_id, and only
\* when that id is a non-empty string.
LayerSaveArtifacts(w, out) ==
    IF ~IsNone(out.groups) /\ out.layer_id # ""
    THEN [w |-> [w EXCEPT !.groups_yaml[out.layer_id] = out.groups],
          saved |-> <<"planning/groups/" \o out.layer_id \o "/groups.yaml">>]
    ELSE [w |-> w, saved |-> <<>>]

\* GroupPlannerPhase.parse_output: success iff at least one task block.
GroupParseOutput(reply) == [success |-> reply.tasks >= 1, task_ids |-> reply.tasks]

\* GroupPlannerPhase.save_artifacts: saves nothing.
GroupSaveArtifacts(w, out) == [w |-> w, saved |-> <<>>]

\* What an orchestrator call hands back: the world it leaves, the error it
\* raised ("" for none), whether the LLM was called, the phase result's
\* success flag and artifact list, and whether it read the clock.
Outcome(w, error, llm, success, artifacts, ticked) ==
    [w |-> w, error |-> error, llm |-> llm, success |-> success,
     artifacts |-> artifacts, ticked |-> ticked]

\* ------------------------------------------------------------ orchestrator
NextAction(action, layer_id, group_id, checkpoint_id, phase) ==
    [action |-> action, layer_id |-> layer_id, group_id |-> group_id,
     checkpoint_id |-> checkpoint_id, phase |-> phase]
NoAction == NextAction("", NoneId, NoneId, 0, "")

\* The inner loop taking only a group whose dependencies are all completed.
FirstOpenGroupReady(groups, completed_groups) ==
    LET Ready(g) == /\ g.id \notin Range(completed_groups)
                    /\ Range(g.depends_on_groups) \subseteq Range(completed_groups)
    IN FirstIndex(groups, Ready)

\* The inner loop of get_next_action: the first group of the document, in
\* the order listed, whose id is not in completed_groups (0: none).
FirstOpenGroup(groups, completed_groups) ==
    LET Open(g) == g.id \notin Range(completed_groups)
    IN FirstIndex(groups, Open)

\* "All done" setting the phase in memory without saving the session.
MarkCompletedUnsaved(w, t) == [w EXCEPT !.session[1].current_phase = COMPLETED]

\* "All done" saving the session with the phase it had.
MarkCompletedKeepsPhase(w, t) == SaveSession(w, t)

\* "All done" resetting the layer and group pointers as well.
MarkCompletedClearsPointers(w, t) ==
    SaveSession([w EXCEPT !.session[1].current_phase = COMPLETED,
                          !.session[1].current_layer_id = NoneId,
                          !.session[1].current_group_id = NoneId], t)

\* The end of get_next_action, "All done": the phase becomes COMPLETED and
\* the session is saved.
MarkCompleted(w, t) ==
    SaveSession([w EXCEPT !.session[1].current_phase = COMPLETED], t)

RECURSIVE ScanLayers(_, _, _, _, _)

\* The outer loop looking at every layer again, completed or not.
ScanLayersAgain(w, layers, i, t, ticked) ==
    IF i > Len(layers)
    THEN [w |-> MarkCompleted(w, t),
          result |-> NextAction("completed", NoneId, NoneId, 0, ""),
          ticked |-> TRUE]
    ELSE LET layer == layers[i]
             s == Val(w.session)
             groups == LoadGroups(w, layer.id)
         IN IF IsNone(groups)
            THEN [w |-> w, ticked |-> ticked,
                  result |-> NextAction("layer_planning", layer.id, NoneId, 0, "")]
            ELSE LET j == FirstOpenGroup(Val(groups).groups, s.completed_groups)
                 IN IF j # 0
                    THEN [w |-> w, ticked |-> ticked,
                          result |-> NextAction("group_planning", layer.id,
                                                Val(groups).groups[j].id, 0, "")]
                    ELSE ScanLayers(
                             SaveSession([w EXCEPT !.session[1].completed_layers =
                                              Append(@, layer.id)], t),
                             layers, i + 1, t, TRUE)

\* The outer loop of get_next_action over layers.layers from index i on.
ScanLayers(w, layers, i, t, ticked) ==
    IF i > Len(layers)
    THEN [w |-> MarkCompleted(w, t),
          result |-> NextAction("completed", NoneId, NoneId, 0, ""),
          ticked |-> TRUE]
    ELSE LET layer == layers[i]
             s == Val(w.session)
         IN IF layer.id \in Range(s.completed_layers)
            THEN ScanLayers(w, layers, i + 1, t, ticked)
            ELSE LET groups == LoadGroups(w, layer.id)
                 IN IF IsNone(groups)
                    THEN [w |-> w, ticked |-> ticked,
                          result |-> NextAction("layer_planning", layer.id, NoneId, 0, "")]
                    ELSE LET j == FirstOpenGroup(Val(groups).groups, s.completed_groups)
                         IN IF j # 0
                            THEN [w |-> w, ticked |-> ticked,
                                  result |-> NextAction("group_planning", layer.id,
                                                        Val(groups).groups[j].id, 0, "")]
                            ELSE ScanLayers(
                                     SaveSession([w EXCEPT !.session[1].completed_layers =
                                                      Append(@, layer.id)], t),
                                     layers, i + 1, t, TRUE)

\* get_next_action looking at the documents before the pending checkpoint.
GetNextActionDocsFirst(w0, t) ==
    LET w == Loaded(w0)
    IN IF IsNone(w.session)
       THEN [w |-> w, ticked |-> FALSE, result |-> NextAction("start", NoneId, NoneId, 0, "")]
       ELSE LET layers == LoadLayers(w)
            IN IF IsNone(layers)
               THEN [w |-> w, ticked |-> FALSE,
                     result |-> NextAction("architect", NoneId, NoneId, 0, "")]
               ELSE ScanLayers(w, Val(layers).layers, 1, t, FALSE)

\* PlannerOrchestrator.get_next_action.
GetNextAction(w0, t) ==
    LET w == Loaded(w0)
    IN IF IsNone(w.session)
       THEN [w |-> w, ticked |-> FALSE, result |-> NextAction("start", NoneId, NoneId, 0, "")]
       ELSE LET pending == GetPendingCheckpoint(Val(w.session))
            IN IF ~IsNone(pending)
               THEN [w |-> w, ticked |-> FALSE,
                     result |-> NextAction("checkpoint", NoneId, NoneId,
                                           Val(pending).id, Val(pending).phase)]
               ELSE LET layers == LoadLayers(w)
                    IN IF IsNone(layers)
                       THEN [w |-> w, ticked |-> FALSE,
                             result |-> NextAction("architect", NoneId, NoneId, 0, "")]
                       ELSE ScanLayers(w, Val(layers).layers, 1, t, FALSE)

\* The last statement of run_architect_phase after a successful phase,
\* self.docs_fetcher.fetch_tech_stack_docs(tech_names), stands outside any
\* try: when the fetch returns, the phase result is returned; when an
\* exception leaves the fetch, it leaves run_architect_phase in place of
\* the result, the checkpoint having been created and saved before.  In
\* the outcome o, success and artifacts stay those of the phase result and
\* error tells what the call raised.
FetchTechStackDocs(o, reply) ==
    IF reply.fetch = FETCH_RAISES
    THEN [o EXCEPT !.error = "Documentation fetch failed"]
    ELSE o

\* run_architect_phase with a phase runner that writes and lists the tech
\* stack of a reply whose layers block did not parse.
RunArchitectPhaseKeepsTechStack(w0, reply, t) ==
    LET w == Loaded(w0)
    IN IF IsNone(w.session)
       THEN Outcome(w, "No planning session", FALSE, FALSE, <<>>, FALSE)
       ELSE IF ~CanProceed(Val(w.session))
       THEN Outcome(w, "Pending checkpoint", FALSE, FALSE, <<>>, FALSE)
       ELSE LET w1 == SaveSession([w EXCEPT !.session[1].current_phase = ARCHITECT], t)
                out == ArchitectParseOutput(reply)
                sv == ArchitectSaveArtifacts(w1, out)
                half == ArchitectSaveArtifacts(w1, [out EXCEPT !.layers = None])
            IN IF reply.raises
               THEN Outcome(w1, "LLM request failed", TRUE, FALSE, <<>>, TRUE)
               ELSE IF ~out.success
               THEN Outcome(half.w, "", TRUE, FALSE, half.saved, TRUE)
               ELSE FetchTechStackDocs(
                        Outcome(CreateCheckpoint(sv.w, ARCHITECT, Len(Val(out.layers)),
                                                 sv.saved, t),
                                "", TRUE, TRUE, sv.saved, TRUE),
                        reply)

\* run_architect_phase with a phase runner that saves the artifacts of a
\* reply whether or not the parse succeeded.
RunArchitectPhaseSavesAnyway(w0, reply, t) ==
    LET w == Loaded(w0)
    IN IF IsNone(w.session)
       THEN Outcome(w, "No planning session", FALSE, FALSE, <<>>, FALSE)
       ELSE IF ~CanProceed(Val(w.session))
       THEN Outcome(w, "Pending checkpoint", FALSE, FALSE, <<>>, FALSE)
       ELSE LET w1 == SaveSession([w EXCEPT !.session[1].current_phase = ARCHITECT], t)
                out == ArchitectParseOutput(reply)
                sv == ArchitectSaveArtifacts(w1, out)
            IN IF reply.raises
               THEN Outcome(w1, "LLM request failed", TRUE, FALSE, <<>>, TRUE)
               ELSE IF ~out.success
               THEN Outcome(sv.w, "", TRUE, FALSE, <<>>, TRUE)
               ELSE FetchTechStackDocs(
                        Outcome(CreateCheckpoint(sv.w, ARCHITECT, Len(Val(out.layers)),
                                                 sv.saved, t),
                                "", TRUE, TRUE, sv.saved, TRUE),
                        reply)

\* PlannerOrchestrator.run_architect_phase, run to its end.
RunArchitectPhase(w0, reply, t) ==
    LET w == Loaded(w0)
    IN IF IsNone(w.session)
       THEN Outcome(w, "No planning session", FALSE, FALSE, <<>>, FALSE)
       ELSE IF ~CanProceed(Val(w.session))
       THEN Outcome(w, "Pending checkpoint", FALSE, FALSE, <<>>, FALSE)
       ELSE LET w1 == SaveSession([w EXCEPT !.session[1].current_phase = ARCHITECT], t)
                out == ArchitectParseOutput(reply)
                sv == ArchitectSaveArtifacts(w1, out)
            IN IF reply.raises
               THEN Outcome(w1, "LLM request failed", TRUE, FALSE, <<>>, TRUE)
               ELSE IF ~out.success
               THEN Outcome(w1, "", TRUE, FALSE, <<>>, TRUE)
               ELSE FetchTechStackDocs(
                        Outcome(CreateCheckpoint(sv.w, ARCHITECT, Len(Val(out.layers)),
                                                 sv.saved, t),
                                "", TRUE, TRUE, sv.saved, TRUE),
                        reply)

\* run_layer_planning setting the phase and leaving current_layer_id as
\* it was.
RunLayerPlanningKeepsPointer(w0, layer_id, reply, t) ==
    LET w == Loaded(w0)
    IN IF IsNone(w.session)
       THEN Outcome(w, "No planning session", FALSE, FALSE, <<>>, FALSE)
       ELSE IF ~CanProceed(Val(w.session))
       THEN Outcome(w, "Pending checkpoint", FALSE, FALSE, <<>>, FALSE)
       ELSE LET w1 == SaveSession([w EXCEPT !.session[1].current_phase = LAYER_PLANNING], t)
                out == LayerParseOutput(reply)
                sv == LayerSaveArtifacts(w1, out)
            IN IF reply.raises
               THEN Outcome(w1, "LLM request failed", TRUE, FALSE, <<>>, TRUE)
               ELSE IF ~out.success
               THEN Outcome(w1, "", TRUE, FALSE, <<>>, TRUE)
               ELSE Outcome(CreateCheckpoint(sv.w, LAYER_PLANNING,
                                             Len(Val(out.groups).groups), sv.saved, t),
                            "", TRUE, TRUE, sv.saved, TRUE)

\* PlannerOrchestrator.run_layer_planning, run to its end.
RunLayerPlanning(w0, layer_id, reply, t) ==
    LET w == Loaded(w0)
    IN IF IsNone(w.session)
       THEN Outcome(w, "No planning session", FALSE, FALSE, <<>>, FALSE)
       ELSE IF ~CanProceed(Val(w.session))
       THEN Outcome(w, "Pending checkpoint", FALSE, FALSE, <<>>, FALSE)
       ELSE LET w1 == SaveSession([w EXCEPT !.session[1].current_phase = LAYER_PLANNING,
                                            !.session[1].current_layer_id = layer_id], t)
                out == LayerParseOutput(reply)
                sv == LayerSaveArtifacts(w1, out)
            IN IF reply.raises
               THEN Outcome(w1, "LLM request failed", TRUE, FALSE, <<>>, TRUE)
               ELSE IF ~out.success
               THEN Outcome(w1, "", TRUE, FALSE, <<>>, TRUE)
               ELSE Outcome(CreateCheckpoint(sv.w, LAYER_PLANNING,
                                             Len(Val(out.groups).groups), sv.saved, t),
                            "", TRUE, TRUE, sv.saved, TRUE)

\* run_group_planning marking the group completed together with the
\* pointer, before the phase runs.
RunGroupPlanningMarksEarly(w0, layer_id, group_id, reply, t) ==
    LET w == Loaded(w0)
    IN IF IsNone(w.session)
       THEN Outcome(w, "No planning session", FALSE, FALSE, <<>>, FALSE)
       ELSE IF ~CanProceed(Val(w.session))
       THEN Outcome(w, "Pending checkpoint", FALSE, FALSE, <<>>, FALSE)
       ELSE LET w1 == SaveSession([w EXCEPT !.session[1].current_phase = GROUP_PLANNING,
                                            !.session[1].current_group_id = group_id,
                                            !.session[1].completed_groups =
                                                IF group_id \in Range(@) THEN @
                                                ELSE Append(@, group_id)], t)
                out == GroupParseOutput(reply)
                sv == GroupSaveArtifacts(w1, out)
                w2 == CreateCheckpoint(sv.w, GROUP_PLANNING, out.task_ids, sv.saved, t)
            IN IF reply.raises
               THEN Outcome(w1, "LLM request failed", TRUE, FALSE, <<>>, TRUE)
               ELSE IF ~out.success
               THEN Outcome(w1, "", TRUE, FALSE, <<>>, TRUE)
               ELSE Outcome(w2, "", TRUE, TRUE, sv.saved, TRUE)

\* run_group_planning leaving completed_groups alone.
RunGroupPlanningUnmarked(w0, layer_id, group_id, reply, t) ==
    LET w == Loaded(w0)
    IN IF IsNone(w.session)
       THEN Outcome(w, "No planning session", FALSE, FALSE, <<>>, FALSE)
       ELSE IF ~CanProceed(Val(w.session))
       THEN Outcome(w, "Pending checkpoint", FALSE, FALSE, <<>>, FALSE)
       ELSE LET w1 == SaveSession([w EXCEPT !.session[1].current_phase = GROUP_PLANNING,
                                            !.session[1].current_group_id = group_id], t)
                out == GroupParseOutput(reply)
                sv == GroupSaveArtifacts(w1, out)
                w2 == CreateCheckpoint(sv.w, GROUP_PLANNING, out.task_ids, sv.saved, t)
            IN IF reply.raises
               THEN Outcome(w1, "LLM request failed", TRUE, FALSE, <<>>, TRUE)
               ELSE IF ~out.success
               THEN Outcome(w1, "", TRUE, FALSE, <<>>, TRUE)
               ELSE Outcome(w2, "", TRUE, TRUE, sv.saved, TRUE)

\* PlannerOrchestrator.run_group_planning, run to its end.
RunGroupPlanning(w0, layer_id, group_id, reply, t) ==
    LET w == Loaded(w0)
    IN IF IsNone(w.session)
       THEN Outcome(w, "No planning session", FALSE, FALSE, <<>>, FALSE)
       ELSE IF ~CanProceed(Val(w.session))
       THEN Outcome(w, "Pending checkpoint", FALSE, FALSE, <<>>, FALSE)
       ELSE LET w1 == SaveSession([w EXCEPT !.session[1].current_phase = GROUP_PLANNING,
                                            !.session[1].current_group_id = group_id], t)
                out == GroupParseOutput(reply)
                sv == GroupSaveArtifacts(w1, out)
                w2 == CreateCheckpoint(sv.w, GROUP_PLANNING, out.task_ids, sv.saved, t)
                w3 == IF group_id \notin Range(Val(w2.session).completed_groups)
                      THEN SaveSession([w2 EXCEPT !.session[1].completed_groups =
                                                      Append(@, group_id)], t)
                      ELSE w2
            IN IF reply.raises
               THEN Outcome(w1, "LLM request failed", TRUE, FALSE, <<>>, TRUE)
               ELSE IF ~out.success
               THEN Outcome(w1, "", TRUE, FALSE, <<>>, TRUE)
               ELSE Outcome(w3, "", TRUE, TRUE, sv.saved, TRUE)

\* _check_layer_completion marking the layer without saving the session.
CheckLayerCompletionUnsaved(w, t) ==
    LET s == Val(w.session)
        layer_id == s.current_layer_id
        groups == LoadGroups(w, layer_id)
    IN IF IsNone(w.session) \/ layer_id = NoneId \/ layer_id = ""
       THEN w
       ELSE IF IsNone(groups)
       THEN w
       ELSE LET all_complete == \A k \in 1..Len(Val(groups).groups) :
                                    Val(groups).groups[k].id \in Range(s.completed_groups)
            IN IF all_complete /\ layer_id \notin Range(s.completed_layers)
               THEN [w EXCEPT !.session[1].completed_layers = Append(@, layer_id),
                              !.session[1].current_layer_id = NoneId]
               ELSE w

\* PlannerOrchestrator._check_layer_completion.
CheckLayerCompletion(w, t) ==
    LET s == Val(w.session)
        layer_id == s.current_layer_id
        groups == LoadGroups(w, layer_id)
    IN IF IsNone(w.session) \/ layer_id = NoneId \/ layer_id = ""
       THEN w
       ELSE IF IsNone(groups)
       THEN w
       ELSE LET all_complete == \A k \in 1..Len(Val(groups).groups) :
                                    Val(groups).groups[k].id \in Range(s.completed_groups)
            IN IF all_complete /\ layer_id \notin Range(s.completed_layers)
               THEN SaveSession([w EXCEPT !.session[1].completed_layers = Append(@, layer_id),
                                          !.session[1].current_layer_id = NoneId], t)
               ELSE w

\* PlannerOrchestrator.approve_checkpoint; ret is the index of the
\* checkpoint the returned dict describes, 0 for a None return.
ApproveCheckpoint(w0, feedback, t) ==
    LET w == Loaded(w0)
    IN IF IsNone(w.session)
       THEN [w |-> w, ret |-> 0, ticked |-> FALSE]
       ELSE LET pending == GetPendingCheckpoint(Val(w.session))
            IN IF IsNone(pending)
               THEN [w |-> w, ret |-> 0, ticked |-> FALSE]
               ELSE LET r == CmApproveCheckpoint(w, Val(pending).id, feedback, t)
                    IN IF r.found # 0
                       THEN [w |-> CheckLayerCompletion(r.w, t), ret |-> r.found, ticked |-> TRUE]
                       ELSE [w |-> r.w, ret |-> 0, ticked |-> FALSE]

\* reject_checkpoint saving the session even when nothing is pending.
RejectCheckpointSavesAnyway(w0, feedback, t) ==
    LET w == Loaded(w0)
    IN IF IsNone(w.session)
       THEN [w |-> w, ret |-> 0, ticked |-> FALSE]
       ELSE LET pending == GetPendingCheckpoint(Val(w.session))
            IN IF IsNone(pending)
               THEN [w |-> SaveSession(w, t), ret |-> 0, ticked |-> TRUE]
               ELSE LET r == CmRejectCheckpoint(w, Val(pending).id, feedback, t)
                    IN IF r.found # 0
                       THEN [w |-> r.w, ret |-> r.found, ticked |-> TRUE]
                       ELSE [w |-> r.w, ret |-> 0, ticked |-> FALSE]

\* PlannerOrchestrator.reject_checkpoint.
RejectCheckpoint(w0, feedback, t) ==
    LET w == Loaded(w0)
    IN IF IsNone(w.session)
       THEN [w |-> w, ret |-> 0, ticked |-> FALSE]
       ELSE LET pending == GetPendingCheckpoint(Val(w.session))
            IN IF IsNone(pending)
               THEN [w |-> w, ret |-> 0, ticked |-> FALSE]
               ELSE LET r == CmRejectCheckpoint(w, Val(pending).id, feedback, t)
                    IN IF r.found # 0
                       THEN [w |-> r.w, ret |-> r.found, ticked |-> TRUE]
                       ELSE [w |-> r.w, ret |-> 0, ticked |-> FALSE]

\* PlannerOrchestrator.start_planning; id is the fresh value of uuid4.
StartPlanning(w, id, greenfield, t) ==
    SaveSession([w EXCEPT !.session =
                     Some(PlanningSession(id, IF greenfield THEN GREENFIELD ELSE BROWNFIELD, t))], t)

\* PlannerOrchestrator.continue_planning, run to its end: re-derives the
\* action with get_next_action and dispatches on it.
ContinuePlanning(w0, reply, t) ==
    LET na == GetNextAction(w0, t)
        action == na.result.action
        Ticked(o) == [o EXCEPT !.ticked = @ \/ na.ticked]
    IN IF action = "start"
       THEN Outcome(na.w, "No session", FALSE, FALSE, <<>>, na.ticked)
       ELSE IF action = "checkpoint"
       THEN Outcome(na.w, "Pending checkpoint", FALSE, FALSE, <<>>, na.ticked)
       ELSE IF action = "completed"
       THEN Outcome(na.w, "Planning is complete", FALSE, FALSE, <<>>, na.ticked)
       ELSE IF action = "architect"
       THEN Ticked(RunArchitectPhase(na.w, reply, t))
       ELSE IF action = "layer_planning"
       THEN Ticked(RunLayerPlanning(na.w, na.result.layer_id, reply, t))
       ELSE Ticked(RunGroupPlanning(na.w, na.result.layer_id, na.result.group_id, reply, t))

\* The replies the LLM can give to the phase that `action` dispatches to.
NoReply == [raises |-> FALSE]
RepliesFor(action) ==
    IF action = "architect" THEN ArchReplies
    ELSE IF action = "layer_planning" THEN LayerReplies
    ELSE IF action = "group_planning" THEN GroupReplies
    ELSE {NoReply}

\* ------------------------------------------------------ reply parsing
\* A reply, as the regular expressions of the parsers see it: its ```yaml
\* fenced blocks in order.  Of a block the parsers look at: whether it opens
\* with `version: "1.0"`, whether the key project_type: occurs in it,
\* whether architect_summary: and then layers: occur in it, and whether its
\* text is YAML from which from_dict builds the model without raising.
ArchitectBlocks ==
    [version : BOOLEAN, project_type : BOOLEAN, layers : BOOLEAN, valid : BOOLEAN]

\* The replies of at most MaxBlocks blocks.
ArchitectResponses ==
    UNION {[1..n -> ArchitectBlocks] : n \in 0..MaxBlocks}

\* re.search of one of the two patterns of parse_output,
\*   ```ya?ml\s*\n(version:\s*["']1\.0["'].*?<keys>.*?)```   with re.DOTALL:
\* the match starts at the first block opening with the version line; from
\* there `.*?` runs on, over closing fences and later blocks, to the first
\* occurrence of the keys, and on to the next closing fence.  keys names
\* the field of a block that tells whether it holds them.  The answer is
\* the pair of the first and the last block of the match, <<0, 0>> for no
\* match.
ReSearch(blocks, keys) ==
    LET Opens(b) == b.version
        HasKeys(b) == b[keys]
        i == FirstIndex(blocks, Opens)
        later == IF i = 0 THEN <<>> ELSE SubSeq(blocks, i, Len(blocks))
        k == FirstIndex(later, HasKeys)
    IN IF i = 0 \/ k = 0 THEN <<0, 0>> ELSE <<i, i + k - 1>>

\* yaml.safe_load and from_dict of the text matched: they raise on a text
\* that runs over a fence (a line of backquotes is no YAML) and on a block
\* that is not valid.
Loads(blocks, match) == match[1] = match[2] /\ blocks[match[1]].valid

ArchitectOutput(success, message, has_tech_stack, has_layers) ==
    [success |-> success, message |-> message,
     tech_stack |-> has_tech_stack, layers |-> has_layers]

\* TechnicalArchitectPhase.parse_output on the text of a reply.
ArchitectParseResponse(blocks) ==
    LET tech_stack_match == ReSearch(blocks, "project_type")
        layers_match == ReSearch(blocks, "layers")
        tech == tech_stack_match # <<0, 0>>
        lay == layers_match # <<0, 0>>
    IN IF tech /\ ~Loads(blocks, tech_stack_match)
       THEN ArchitectOutput(FALSE, "Failed to parse tech stack", FALSE, FALSE)
       ELSE IF lay /\ ~Loads(blocks, layers_match)
       THEN ArchitectOutput(FALSE, "Failed to parse layers", tech, FALSE)
       ELSE IF tech /\ lay
       THEN ArchitectOutput(TRUE, "Architecture defined", TRUE, TRUE)
       ELSE ArchitectOutput(FALSE, "Could not parse architecture output. Expected tech-stack and layers YAML blocks.",
                            tech, lay)

\* A group-planner reply, as the patterns of GroupPlannerPhase.parse_output
\* see it: a sequence of tokens, two tokens being neighbours when only white
\* space lies between them.
\*   "F"      an opening fence line ```markdown
\*   "T-00n"  a frontmatter opening  ---\nid: T-00n  with the heading after it
\*   "C"      an inner code block, from ```lang to its closing ```
\*   "D"      the section  ## Done When  with its checklist items
\*   "X"      the closing fence ``` of a ```markdown block
\*   "P"      prose outside any task block
TaskId(n) == IF n = 1 THEN "T-001" ELSE IF n = 2 THEN "T-002" ELSE "T-003"
IsFrontmatter(tok) == tok \in {"T-001", "T-002", "T-003"}

\* The n-th task block of a reply: fenced or not, with an inner code block
\* before the checklist or not, ending with a code block after the checklist
\* or with the checklist (as the prompt lays it out), preceded by a line of
\* prose or not.
TaskBlock(n, shape) ==
    (IF shape.prose THEN <<"P">> ELSE <<>>)
        \o (IF shape.fenced THEN <<"F">> ELSE <<>>)
        \o <<TaskId(n)>>
        \o (IF shape.code THEN <<"C">> ELSE <<>>)
        \o <<"D">>
        \o (IF shape.tail THEN <<"C">> ELSE <<>>)
        \o (IF shape.fenced THEN <<"X">> ELSE <<>>)

TaskShapes == [fenced : BOOLEAN, code : BOOLEAN, tail : BOOLEAN, prose : BOOLEAN]

\* The replies of at most MaxBlocks well-formed task blocks, by their shapes.
GroupResponses == UNION {[1..n -> TaskShapes] : n \in 0..MaxBlocks}

RECURSIVE Tokens(_, _)
Tokens(shapes, n) ==
    IF n > Len(shapes) THEN <<>>
    ELSE TaskBlock(n, shapes[n]) \o Tokens(shapes, n + 1)

Min(S) == CHOOSE x \in S : \A y \in S : x <= y

\* re.findall of the first pattern,
\*   ```markdown\s*\n(---\s*\nid:\s*T-\d+.*?```)\s*```   with re.DOTALL:
\* a match starts at an opening fence followed by a frontmatter and runs to
\* the first closing ``` that has another ``` as its right neighbour, which
\* it consumes; the search goes on after it.  The answer is the frontmatter
\* of each match.
RECURSIVE FindAllFenced(_, _)
FindAllFenced(toks, pos) ==
    LET Ends(i) == {k \in (i + 2)..(Len(toks) - 1) :
                        toks[k] \in {"C", "X"} /\ toks[k + 1] \in {"F", "C", "X"}}
        starts == {i \in pos..(Len(toks) - 1) :
                       toks[i] = "F" /\ IsFrontmatter(toks[i + 1]) /\ Ends(i) # {}}
    IN IF starts = {} THEN <<>>
       ELSE LET i == Min(starts)
                k == Min(Ends(i))
            IN <<toks[i + 1]>> \o FindAllFenced(toks, k + 2)

\* re.findall of the second pattern,
\*   (---\s*\nid:\s*T-\d+.*?## Done When\s*\n(?:- \[[ x]\].*\n?)+)   with
\* re.DOTALL: a match starts at a frontmatter that has a checklist after it;
\* under DOTALL the `.*` of the checklist item runs to the end of the
\* reply, so the first match is the only one.
FindAllUnfenced(toks) ==
    LET starts == {i \in 1..Len(toks) :
                       IsFrontmatter(toks[i]) /\ \E k \in (i + 1)..Len(toks) : toks[k] = "D"}
    IN IF starts = {} THEN <<>> ELSE <<toks[Min(starts)]>>

\* GroupPlannerPhase.parse_output on the text of a reply.
GroupParseResponse(toks) ==
    LET fenced == FindAllFenced(toks, 1)
        task_matches == IF fenced = <<>> THEN FindAllUnfenced(toks) ELSE fenced
    IN [success |-> task_matches # <<>>, task_ids |-> task_matches]

\* ---------------------------------------------------------- documents
\* The dataclasses of models/planner.py with every field, and their
\* to_dict / from_dict.  from_dict is given on the dicts to_dict produces,
\* which carry every key, so each data.get(key, default) finds its key.

\* Python truth of a value read from a dict: None and "" and {} are false.
TruthyStr(o) == ~IsNone(o) /\ Val(o) # ""
TruthyDict(o) == ~IsNone(o) /\ DOMAIN Val(o) # {}
\* Python truth of an Optional dataclass, datetime or Path attribute: these
\* classes define neither __bool__ nor __len__, only None is false.
TruthyObject(o) == ~IsNone(o)

\* datetime.isoformat writes the fraction only when microsecond is not 0;
\* datetime.fromisoformat reads a missing fraction as 0.
Datetimes == [second : {1}, microsecond : {0, 5}]
IsoFormat(dt) ==
    [seconds |-> dt.second,
     fraction |-> IF dt.microsecond # 0 THEN Some(dt.microsecond) ELSE None]
FromIsoFormat(text) ==
    [second |-> text.seconds,
     microsecond |-> IF IsNone(text.fraction) THEN 0 ELSE Val(text.fraction)]

\* pathlib.Path as its parts; str() of the empty path is ".", and Path(".")
\* is the empty path.
Paths == {<<>>, <<"repo">>}
PathStr(path) == IF path = <<>> THEN "." ELSE path[1]
PathOf(text) == IF text = "." THEN <<>> ELSE <<text>>

\* The lists of at most MaxItems elements of S.
Lists(S) == UNION {[1..n -> S] : n \in 0..MaxItems}
Map(F(_), seq) == [i \in 1..Len(seq) |-> F(seq[i])]

DependencyToDict(x) == [name |-> x.name, version |-> x.version, purpose |-> x.purpose]
DependencyFromDict(data) ==
    [name |-> data.name, version |-> data.version, purpose |-> data.purpose]

FrameworkConfigToDict(x) == [name |-> x.name, version |-> x.version, docs_url |-> x.docs_url]
FrameworkConfigFromDict(data) ==
    [name |-> data.name, version |-> data.version, docs_url |-> data.docs_url]

RuntimeConfigToDict(x) ==
    [language |-> x.language, version |-> x.version,
     runtime |-> x.runtime, runtime_version |-> x.runtime_version]
RuntimeConfigFromDict(data) ==
    [language |-> data.language, version |-> data.version,
     runtime |-> data.runtime, runtime_version |-> data.runtime_version]

DatabaseConfigToDict(x) ==
    [type |-> x.type, version |-> x.version, orm |-> x.orm, orm_version |-> x.orm_version]
DatabaseConfigFromDict(data) ==
    [type |-> data.type, version |-> data.version,
     orm |-> data.orm, orm_version |-> data.orm_version]

TestingConfigToDict(x) == [unit |-> x.unit, e2e |-> x.e2e, integration |-> x.integration]
TestingConfigFromDict(data) ==
    [unit |-> data.unit, e2e |-> data.e2e, integration |-> data.integration]

\* TechStack.to_dict; frameworks, a dict, is a set of key/value entries.
TechStackToDict(x) ==
    [version |-> x.version,
     created |-> IsoFormat(x.created),
     project_type |-> x.project_type,
     runtime |-> IF TruthyObject(x.runtime)
                 THEN Some(RuntimeConfigToDict(Val(x.runtime))) ELSE None,
     frameworks |-> {[key |-> e.key, value |-> FrameworkConfigToDict(e.value)] :
                         e \in x.frameworks},
     database |-> IF TruthyObject(x.database)
                  THEN Some(DatabaseConfigToDict(Val(x.database))) ELSE None,
     testing |-> IF TruthyObject(x.testing)
                 THEN Some(TestingConfigToDict(Val(x.testing))) ELSE None,
     dependencies |-> Map(DependencyToDict, x.dependencies),
     security_notes |-> x.security_notes]

\* TechStack.from_dict.
TechStackFromDict(data) ==
    [version |-> data.version,
     created |-> FromIsoFormat(data.created),
     project_type |-> data.project_type,
     runtime |-> IF TruthyDict(data.runtime)
                 THEN Some(RuntimeConfigFromDict(Val(data.runtime))) ELSE None,
     frameworks |-> {[key |-> e.key, value |-> FrameworkConfigFromDict(e.value)] :
                         e \in data.frameworks},
     database |-> IF TruthyDict(data.database)
                  THEN Some(DatabaseConfigFromDict(Val(data.database))) ELSE None,
     testing |-> IF TruthyDict(data.testing)
                 THEN Some(TestingConfigFromDict(Val(data.testing))) ELSE None,
     dependencies |-> Map(DependencyFromDict, data.dependencies),
     security_notes |-> data.security_notes]

LayerToDict(x) ==
    [id |-> x.id, name |-> x.name, order |-> x.order, description |-> x.description,
     responsibilities |-> x.responsibilities, outputs |-> x.outputs,
     depends_on |-> x.depends_on]
LayerFromDict(data) ==
    [id |-> data.id, name |-> data.name, order |-> data.order,
     description |-> data.description,
     responsibilities |-> data.responsibilities, outputs |-> data.outputs,
     depends_on |-> data.depends_on]

LayerDefinitionToDict(x) ==
    [version |-> x.version, created |-> IsoFormat(x.created),
     architect_summary |-> x.architect_summary,
     layers |-> Map(LayerToDict, x.layers)]
LayerDefinitionFromDict(data) ==
    [version |-> data.version, created |-> FromIsoFormat(data.created),
     architect_summary |-> data.architect_summary,
     layers |-> Map(LayerFromDict, data.layers)]

ContractExportToDict(x) == [name |-> x.name, type |-> x.type, file |-> x.file]
ContractExportFromDict(data) == [name |-> data.name, type |-> data.type, file |-> data.file]

ContractInterfaceToDict(x) == [name |-> x.name, methods |-> x.methods]
ContractInterfaceFromDict(data) == [name |-> data.name, methods |-> data.methods]

GroupContractToDict(x) ==
    [exports |-> Map(ContractExportToDict, x.exports),
     interfaces |-> Map(ContractInterfaceToDict, x.interfaces)]
GroupContractFromDict(data) ==
    [exports |-> Map(ContractExportFromDict, data.exports),
     interfaces |-> Map(ContractInterfaceFromDict, data.interfaces)]

\* Group.to_dict written as if an empty GroupContract were false.
GroupToDictEmptyContractsNull(x) ==
    [id |-> x.id, name |-> x.name, order |-> x.order, description |-> x.description,
     contracts |-> IF TruthyObject(x.contracts)
                      /\ (Val(x.contracts).exports # <<>>
                          \/ Val(x.contracts).interfaces # <<>>)
                   THEN Some(GroupContractToDict(Val(x.contracts))) ELSE None,
     depends_on_groups |-> x.depends_on_groups,
     estimated_tasks |-> x.estimated_tasks]

GroupToDict(x) ==
    [id |-> x.id, name |-> x.name, order |-> x.order, description |-> x.description,
     contracts |-> IF TruthyObject(x.contracts)
                   THEN Some(GroupContractToDict(Val(x.contracts))) ELSE None,
     depends_on_groups |-> x.depends_on_groups,
     estimated_tasks |-> x.estimated_tasks]
GroupFromDict(data) ==
    [id |-> data.id, name |-> data.name, order |-> data.order,
     description |-> data.description,
     contracts |-> IF TruthyDict(data.contracts)
                   THEN Some(GroupContractFromDict(Val(data.contracts))) ELSE None,
     depends_on_groups |-> data.depends_on_groups,
     estimated_tasks |-> data.estimated_tasks]

GroupDefinitionToDict(x) ==
    [version |-> x.version, layer_id |-> x.layer_id, layer_name |-> x.layer_name,
     groups |-> Map(GroupToDict, x.groups),
     execution_order |-> x.execution_order]
GroupDefinitionFromDict(data) ==
    [version |-> data.version, layer_id |-> data.layer_id,
     layer_name |-> data.layer_name,
     groups |-> Map(GroupFromDict, data.groups),
     execution_order |-> data.execution_order]

\* Checkpoint.to_dict / from_dict with the `created` stamp and the stamps as
\* datetimes.
FullCheckpointToDict(x) ==
    [id |-> x.id, phase |-> x.phase, description |-> x.description,
     status |-> x.status,
     created |-> IsoFormat(x.created),
     approved_at |-> IF TruthyObject(x.approved_at)
                     THEN Some(IsoFormat(Val(x.approved_at))) ELSE None,
     feedback |-> x.feedback, artifacts |-> x.artifacts]
FullCheckpointFromDict(data) ==
    [id |-> data.id, phase |-> data.phase, description |-> data.description,
     status |-> data.status,
     created |-> FromIsoFormat(data.created),
     approved_at |-> IF TruthyDict(data.approved_at)
                     THEN Some(FromIsoFormat(Val(data.approved_at))) ELSE None,
     feedback |-> data.feedback, artifacts |-> data.artifacts]

\* PlanningSession.to_dict / from_dict with target_repo and `created`.
FullSessionToDict(x) ==
    [id |-> x.id, project_type |-> x.project_type, current_phase |-> x.current_phase,
     target_repo |-> IF TruthyObject(x.target_repo)
                     THEN Some(PathStr(Val(x.target_repo))) ELSE None,
     created |-> IsoFormat(x.created),
     updated |-> IsoFormat(x.updated),
     current_layer_id |-> x.current_layer_id,
     current_group_id |-> x.current_group_id,
     completed_layers |-> x.completed_layers,
     completed_groups |-> x.completed_groups,
     checkpoints |-> Map(FullCheckpointToDict, x.checkpoints)]
FullSessionFromDict(data) ==
    [id |-> data.id, project_type |-> data.project_type,
     current_phase |-> data.current_phase,
     target_repo |-> IF TruthyStr(data.target_repo)
                     THEN Some(PathOf(Val(data.target_repo))) ELSE None,
     created |-> FromIsoFormat(data.created),
     updated |-> FromIsoFormat(data.updated),
     current_layer_id |-> data.current_layer_id,
     current_group_id |-> data.current_group_id,
     completed_layers |-> data.completed_layers,
     completed_groups |-> data.completed_groups,
     checkpoints |-> Map(FullCheckpointFromDict, data.checkpoints)]

\* The values written and read back: optional fields absent and present,
\* empty and non-empty strings, lists and dicts, configs with every field
\* at its default, checkpoints in every status.
Optional(S) == {None} \cup {Some(v) : v \in S}

TechStacks ==
    [version : {"1.0", ""},
     created : Datetimes,
     project_type : {"web_application"},
     runtime : Optional({[language |-> "typescript", version |-> "5",
                          runtime |-> "", runtime_version |-> ""]}),
     frameworks : {{}, {[key |-> "frontend",
                         value |-> [name |-> "react", version |-> "18", docs_url |-> ""]]}},
     database : Optional({[type |-> "sqlite", version |-> "3",
                           orm |-> "", orm_version |-> ""]}),
     testing : Optional({[unit |-> "", e2e |-> "", integration |-> ""],
                         [unit |-> "vitest", e2e |-> "", integration |-> ""]}),
     dependencies : Lists({[name |-> "zod", version |-> "3", purpose |-> ""]}),
     security_notes : Lists({"note"})]

LayerDefinitions ==
    [version : {"1.0"},
     created : Datetimes,
     architect_summary : {"", "summary"},
     layers : Lists([id : {"L1"}, name : {"Core"}, order : {1},
                     description : {"", "d"},
                     responsibilities : {<<>>}, outputs : {<<"out">>},
                     depends_on : {<<>>, <<"L0">>}])]

GroupContracts ==
    {[exports |-> <<>>, interfaces |-> <<>>],
     [exports |-> <<[name |-> "User", type |-> "type", file |-> "user.ts"]>>,
      interfaces |-> <<[name |-> "Repo", methods |-> <<>>]>>]}

GroupDefinitions ==
    [version : {"1.0"},
     layer_id : {"", "L1"},
     layer_name : {"Core"},
     groups : Lists([id : {"g1"}, name : {"Types"}, order : {1},
                     description : {""},
                     contracts : Optional(GroupContracts),
                     depends_on_groups : {<<>>, <<"g0">>},
                     estimated_tasks : {0, 3}]),
     execution_order : {<<>>, <<<<"g1">>>>}]

FullCheckpoints ==
    [id : {"cp-001"}, phase : {ARCHITECT}, description : {"d"},
     status : {PENDING, APPROVED, REJECTED},
     created : {[second |-> 1, microsecond |-> 0]},
     approved_at : Optional(Datetimes),
     feedback : {"fb"}, artifacts : {<<>>, <<"layers.yaml">>}]

FullSessions ==
    [id : {"plan-a"}, project_type : {GREENFIELD},
     current_phase : {NOT_STARTED, COMPLETED},
     target_repo : Optional(Paths),
     created : Datetimes,
     updated : {[second |-> 1, microsecond |-> 5]},
     current_layer_id : Optional({"", "L1"}),
     current_group_id : {None},
     completed_layers : {<<>>}, completed_groups : {<<"g1">>},
     checkpoints : Lists(FullCheckpoints)]

\* from_dict(to_dict(x)) for a value x of the class named by cls.
RoundTrip(cls, x) ==
    CASE cls = "TechStack" -> TechStackFromDict(TechStackToDict(x))
      [] cls = "LayerDefinition" -> LayerDefinitionFromDict(LayerDefinitionToDict(x))
      [] cls = "GroupDefinition" -> GroupDefinitionFromDict(GroupDefinitionToDict(x))
      [] cls = "PlanningSession" -> FullSessionFromDict(FullSessionToDict(x))

\* ------------------------------------------------------- group context
\* GroupDefinition.get_group: the first group of the document with that id.
GetGroup(groups, group_id) ==
    LET HasId(g) == g.id = group_id
        i == FirstIndex(groups.groups, HasId)
    IN IF i = 0 THEN None ELSE Some(groups.groups[i])

\* ", ".join(items).
RECURSIVE JoinComma(_)
JoinComma(items) ==
    IF items = <<>> THEN ""
    ELSE IF Len(items) = 1 THEN items[1]
    ELSE items[1] \o ", " \o JoinComma(Tail(items))

\* The line of build_group_context for an export of the current group.
ExportLine(export) ==
    "  - " \o export.name \o ": " \o export.type \o " (" \o export.file \o ")"

RECURSIVE MethodLines(_, _)
MethodLines(indent, methods) ==
    IF methods = <<>> THEN <<>>
    ELSE <<indent \o methods[1]>> \o MethodLines(indent, Tail(methods))

\* The lines for the interfaces of the current group.
RECURSIVE InterfaceLines(_)
InterfaceLines(interfaces) ==
    IF interfaces = <<>> THEN <<>>
    ELSE <<"  - " \o interfaces[1].name>>
             \o MethodLines("      ", interfaces[1].methods)
             \o InterfaceLines(Tail(interfaces))

\* The line of three backquotes that opens or closes a code block, written
\* with tildes.
FENCE == "~~~"

\* The fenced typescript blocks for the interfaces of a dependency.
RECURSIVE InterfaceBlocks(_)
InterfaceBlocks(interfaces) ==
    IF interfaces = <<>> THEN <<>>
    ELSE <<FENCE \o "typescript", "interface " \o interfaces[1].name \o " {">>
             \o MethodLines("  ", interfaces[1].methods)
             \o <<"}", FENCE>>
             \o InterfaceBlocks(Tail(interfaces))

\* The sections for the current group.
CurrentGroupSections(g) ==
    <<"## Current Group: " \o g.name \o "\n",
      "Description: " \o g.description,
      "Estimated Tasks: " \o ToString(g.estimated_tasks)>>
    \o (IF g.depends_on_groups # <<>>
        THEN <<"\nDepends on groups: " \o JoinComma(g.depends_on_groups)>> ELSE <<>>)
    \o (IF TruthyObject(g.contracts)
        THEN <<"\n### Contracts to Define">>
             \o (IF Val(g.contracts).exports # <<>>
                 THEN <<"\nExports:">>
                      \o [i \in 1..Len(Val(g.contracts).exports) |->
                              ExportLine(Val(g.contracts).exports[i])]
                 ELSE <<>>)
             \o (IF Val(g.contracts).interfaces # <<>>
                 THEN <<"\nInterfaces:">> \o InterfaceLines(Val(g.contracts).interfaces)
                 ELSE <<>>)
        ELSE <<>>)

\* The dependency loop printing the exports of a dependency as well.
RECURSIVE DependentSectionsWithExports(_, _)
DependentSectionsWithExports(groups, dep_ids) ==
    IF dep_ids = <<>> THEN <<>>
    ELSE LET dep_group == GetGroup(groups, dep_ids[1])
         IN (IF TruthyObject(dep_group) /\ TruthyObject(Val(dep_group).contracts)
             THEN <<"### From " \o Val(dep_group).name>>
                  \o [i \in 1..Len(Val(Val(dep_group).contracts).exports) |->
                          ExportLine(Val(Val(dep_group).contracts).exports[i])]
                  \o InterfaceBlocks(Val(Val(dep_group).contracts).interfaces)
             ELSE <<>>)
            \o DependentSectionsWithExports(groups, Tail(dep_ids))

\* The loop over current_group.depends_on_groups: the interfaces of every
\* dependency the document holds with contracts.
RECURSIVE DependentSections(_, _)
DependentSections(groups, dep_ids) ==
    IF dep_ids = <<>> THEN <<>>
    ELSE LET dep_group == GetGroup(groups, dep_ids[1])
         IN (IF TruthyObject(dep_group) /\ TruthyObject(Val(dep_group).contracts)
             THEN <<"### From " \o Val(dep_group).name>>
                  \o InterfaceBlocks(Val(Val(dep_group).contracts).interfaces)
             ELSE <<>>)
            \o DependentSections(groups, Tail(dep_ids))

\* ContextBuilder.build_group_context: the sections it joins with "\n".
\* doc is what load_groups(layer_id) returns, has_tech_stack tells whether
\* tech-stack.yaml exists; the lines written from the tech stack and the
\* cached documentation do not read the groups document and stand as one
\* section.
BuildGroupContext(doc, group_id, has_tech_stack) ==
    (IF TruthyObject(doc)
     THEN LET groups == Val(doc)
              current_group == GetGroup(groups, group_id)
          IN <<"# Layer: " \o groups.layer_name \o "\n">>
             \o (IF TruthyObject(current_group)
                 THEN CurrentGroupSections(Val(current_group)) ELSE <<>>)
             \o <<"\n## Dependent Group Contracts\n">>
             \o DependentSections(groups,
                    IF TruthyObject(current_group)
                    THEN Val(current_group).depends_on_groups ELSE <<>>)
             \o <<"">>
     ELSE <<>>)
    \o (IF has_tech_stack THEN <<"# Tech Stack Reference\n">> ELSE <<>>)

\* Export lists and contracts of the groups documents looked at.
ExportLists ==
    {<<>>,
     <<[name |-> "User", type |-> "type", file |-> "user.ts"]>>,
     <<[name |-> "Repo", type |-> "class", file |-> "repo.ts"],
       [name |-> "User", type |-> "type", file |-> "user.ts"]>>}
InterfaceLists ==
    {<<>>, <<[name |-> "IRepo", methods |-> <<"find(id: string): User">>]>>}
ContextContracts ==
    {None} \cup {Some([exports |-> e, interfaces |-> i]) : e \in ExportLists, i \in InterfaceLists}

ContextGroup(id, name, deps, contracts) ==
    [id |-> id, name |-> name, order |-> 1, description |-> "d", contracts |-> contracts,
     depends_on_groups |-> deps, estimated_tasks |-> 3]

\* Groups documents of a layer: the target group g2 alone, or with the
\* group g1 before or after it; g2 depends on nothing, on g1, or on g1 and
\* a group the document does not hold.
ContextDocs ==
    {[layer_id |-> "L1", layer_name |-> "Core", groups |-> <<ContextGroup("g2", "Api", d, c)>>] :
         d \in {<<>>, <<"g1">>}, c \in ContextContracts}
    \cup {[layer_id |-> "L1", layer_name |-> "Core",
           groups |-> IF first
                      THEN <<ContextGroup("g1", "Types", <<>>, c1), ContextGroup("g2", "Api", d, c2)>>
                      ELSE <<ContextGroup("g2", "Api", d, c2), ContextGroup("g1", "Types", <<>>, c1)>>] :
              first \in BOOLEAN, d \in {<<>>, <<"g1">>, <<"g1", "g0">>},
              c1 \in ContextContracts, c2 \in ContextContracts}

\* The documents that differ from doc only in the exports of one group
\* other than the group group_id.
ExportVariants(doc, group_id) ==
    {[doc EXCEPT !.groups[k].contracts = Some([Val(@) EXCEPT !.exports = e])] :
         k \in {i \in 1..Len(doc.groups) :
                    doc.groups[i].id # group_id /\ ~IsNone(doc.groups[i].contracts)},
         e \in ExportLists}

\* ------------------------------------------------------- conversation
\* core/conversation.py.  Message contents are short strings; Big stands for
\* a message of BigChars characters.
Big == "<big>"
BigChars == 40000
Chars(text) == IF text = Big THEN BigChars ELSE Len(text)

\* ConversationManager.SUMMARIZE_THRESHOLD.
SUMMARIZE_THRESHOLD == 50000

DEFAULT_SYSTEM_PROMPT == "You are a product management assistant"

Message(role, content) == [role |-> role, content |-> content]

\* ConversationManager.__init__ with its ConversationContext: no message,
\* no system prompt, no summary, no persona.
ConversationManager ==
    [messages |-> <<>>, system_prompt |-> "", summary |-> "", persona |-> ""]

\* ConversationContext.add_message.
AddMessage(m, role, content) ==
    [m EXCEPT !.messages = Append(@, Message(role, content))]

RECURSIVE SumChars(_)
SumChars(messages) ==
    IF Len(messages) = 0 THEN 0
    ELSE Chars(messages[1].content) + SumChars(Tail(messages))

\* ConversationContext.get_token_estimate.
GetTokenEstimate(m) ==
    (SumChars(m.messages) + Chars(m.system_prompt) + Chars(m.summary)) \div 4

\* ConversationManager._rebuild_system_prompt (no project context is set).
RebuildSystemPrompt(m) ==
    [m EXCEPT !.system_prompt =
         DEFAULT_SYSTEM_PROMPT
             \o (IF m.persona # ""
                 THEN "\n\n--- CURRENT PERSPECTIVE ---\n" \o m.persona ELSE "")
             \o (IF m.summary # ""
                 THEN "\n\n--- CONVERSATION SUMMARY ---\nEarlier in this conversation:\n"
                          \o m.summary
                 ELSE "")]

\* ConversationManager.set_persona.
SetPersona(m, persona) == RebuildSystemPrompt([m EXCEPT !.persona = persona])

\* ConversationManager._auto_summarize; reply is the summarizer's answer,
\* None when the summarization request raised (the failure is swallowed).
AutoSummarize(m, reply) ==
    IF Len(m.messages) < 10 THEN m
    ELSE IF IsNone(reply) THEN m
    ELSE LET n == Len(m.messages)
             messages_to_keep == SubSeq(m.messages, n - 5, n)
             summary == IF m.summary # ""
                        THEN m.summary \o "\n\nMore recently:\n" \o Val(reply)
                        ELSE Val(reply)
         IN RebuildSystemPrompt([m EXCEPT !.summary = summary,
                                          !.messages = messages_to_keep])

\* chat_stream up to the request to the backend: the user message is
\* added, the history is summarized when the estimate passes the threshold.
ChatStreamBegin(m, user_message, reply) ==
    LET m1 == AddMessage(m, "user", user_message)
    IN IF GetTokenEstimate(m1) > SUMMARIZE_THRESHOLD THEN AutoSummarize(m1, reply) ELSE m1

\* Whether chat_stream calls the summarizer on this message.
Summarizes(m, user_message) ==
    LET m1 == AddMessage(m, "user", user_message)
    IN GetTokenEstimate(m1) > SUMMARIZE_THRESHOLD /\ Len(m1.messages) >= 10

\* _chat_stream_api / _chat_stream_claude_cli after the last fragment: the
\* assistant message is recorded.
ChatStreamEnd(m, full_response) == AddMessage(m, "assistant", full_response)

\* chat_stream with a handler that wraps the error and pops nothing.
ChatStreamExceptKeeps(m) == m

\* chat_stream's `except Exception` handler: the last message is popped.
ChatStreamExcept(m) == [m EXCEPT !.messages = SubSeq(@, 1, Len(@) - 1)]

\* chat_stream when GeneratorExit or KeyboardInterrupt is raised at its
\* yield: neither is an Exception, the handler does not run; the backend's
\* cleanup (finally / with) touches no message.
ChatStreamAbandoned(m) == m

\* ------------------------------------------------------------------ stream
\* The fragments the transport delivers for a request, in arrival order.
Fragment(i) == IF i % 2 = 1 THEN "a" ELSE "b"

UserMessages == {"q", Big}
SummarizerReplies == {None, Some("summary")}
PhasePersona == "architect"
PhasePrompts == {"context\n\n---\n\nprompt", Big}

RECURSIVE Concat(_)
Concat(fragments) ==
    IF Len(fragments) = 0 THEN "" ELSE fragments[1] \o Concat(Tail(fragments))

\* create_fresh_conversation handing out the manager of the previous run.
CreateFreshConversationReused == SetPersona(context.phase, PhasePersona)

\* PhaseRunner.create_fresh_conversation.
CreateFreshConversation == SetPersona(ConversationManager, PhasePersona)

\* PhaseRunner.run parsing what it has accumulated at every chunk.
RunChunkParsesPartial(parsed, full_response) == Append(parsed, full_response)

\* The parse_output calls of PhaseRunner.run when a chunk arrives: none.
RunChunk(parsed, full_response) == parsed

\* The parse_output call of PhaseRunner.run after the stream has ended.
RunParse(parsed, full_response) == Append(parsed, full_response)

\* What a consumer has got from a call: `before` is the message list of the
\* call's conversation when the call was made, `sent` the list handed to the
\* backend, `earlier` the list the previous phase run left in its own
\* conversation.
Heard(op, owner, calls, before, sent, earlier, chunks, error, returned, parsed, raw_response) ==
    [op |-> op, owner |-> owner, calls |-> calls, before |-> before, sent |-> sent,
     earlier |-> earlier, chunks |-> chunks, error |-> error, returned |-> returned,
     parsed |-> parsed, raw_response |-> raw_response]

\* A REPL conversation after n completed exchanges.
History(n) ==
    [ConversationManager EXCEPT
         !.messages = [i \in 1..(2 * n) |->
                           IF i % 2 = 1 THEN Message("user", Big)
                           ELSE Message("assistant", "a")]]

\* ------------------------------------------------------------- the machine
\* The record of a call: the operation, the error it raised ("" for none),
\* whether it called the LLM, the success flag and artifact list of the
\* phase result, the dict get_next_action returned, and the checkpoint
\* approve/reject reported (its index in session.checkpoints, 0 for None);
\* again tells that get_next_action was called right after get_next_action.
Last(op, error, llm, success, artifacts, result, ret) ==
    [op |-> op, error |-> error, llm |-> llm, success |-> success,
     artifacts |-> artifacts, result |-> result, ret |-> ret,
     again |-> (op = "get_next_action" /\ last.op = op)]

\* A project directory before planning has started.
InitPlanner ==
    /\ session = None
    /\ disk = None
    /\ tech_stack = None
    /\ layers_yaml = None
    /\ groups_yaml = [l \in LayerIds |-> None]
    /\ now = 1
    /\ runs = 0
    /\ flights = <<>>
    /\ planned = {}
    /\ last = [op |-> "init", error |-> "", llm |-> FALSE, success |-> FALSE,
               artifacts |-> <<>>, result |-> NoAction, ret |-> 0, again |-> FALSE]

\* No call has been made on a conversation whose history is n exchanges.
InitConversation(n) ==
    /\ context = [repl |-> History(n), phase |-> ConversationManager]
    /\ gen = None
    /\ heard = Heard("init", "", 0, <<>>, <<>>, <<>>, <<>>, "", None, <<>>, None)

\* No function is under study.
InitPure == input = None /\ output = None

Init == InitPlanner /\ InitConversation(0) /\ InitPure

\* The values datetime.now() can return to a call: the value of the previous
\* read or a later one.  A call that does not read the clock sees no time.
Clock(ticked) == IF ticked THEN {t \in {now, now + 1} : t <= MaxClock} ELSE {now}

\* The world w becomes the state; `now` is the time t the call read, if any.
Becomes(w, ticked, t) ==
    /\ UNCHANGED <<chatVars, pureVars>>
    /\ session' = w.session
    /\ disk' = w.disk
    /\ tech_stack' = w.tech_stack
    /\ layers_yaml' = w.layers_yaml
    /\ groups_yaml' = w.groups_yaml
    /\ now' = IF ticked THEN t ELSE now

\* What get_next_action would answer in the current state.
Offered == GetNextAction(World, now).result

DoStartPlanning ==
    \E id \in SessionIds, greenfield \in Greenfield, t \in Clock(TRUE) :
        /\ Becomes(StartPlanning(World, id, greenfield, t), TRUE, t)
        /\ last' = Last("start_planning", "", FALSE, FALSE, <<>>, NoAction, 0)
        /\ UNCHANGED <<runs, flights, planned>>

DoGetNextAction ==
    \E t \in Clock(GetNextAction(World, now).ticked) :
        LET na == GetNextAction(World, t)
        IN /\ Becomes(na.w, na.ticked, t)
           /\ last' = Last("get_next_action", "", FALSE, FALSE, <<>>, na.result, 0)
           /\ UNCHANGED <<runs, flights, planned>>

DoContinuePlanning ==
    /\ runs < MaxRuns
    /\ \E reply \in RepliesFor(Offered.action) :
           \E t \in Clock(ContinuePlanning(World, reply, now).ticked) :
               LET o == ContinuePlanning(World, reply, t)
               IN /\ Becomes(o.w, o.ticked, t)
                  /\ last' = Last("continue_planning", o.error, o.llm, o.success,
                                  o.artifacts, NoAction, 0)
                  /\ runs' = IF o.success THEN runs + 1 ELSE runs
                  /\ UNCHANGED planned
                  /\ UNCHANGED flights

DoApproveCheckpoint ==
    \E feedback \in Feedbacks :
        \E t \in Clock(ApproveCheckpoint(World, feedback, now).ticked) :
            LET r == ApproveCheckpoint(World, feedback, t)
            IN /\ Becomes(r.w, r.ticked, t)
               /\ last' = Last("approve_checkpoint", "", FALSE, FALSE, <<>>, NoAction, r.ret)
               /\ UNCHANGED <<runs, flights, planned>>

DoRejectCheckpoint ==
    \E feedback \in Feedbacks :
        \E t \in Clock(RejectCheckpoint(World, feedback, now).ticked) :
            LET r == RejectCheckpoint(World, feedback, t)
            IN /\ Becomes(r.w, r.ticked, t)
               /\ last' = Last("reject_checkpoint", "", FALSE, FALSE, <<>>, NoAction, r.ret)
               /\ UNCHANGED <<runs, flights, planned>>

Next ==
    \/ DoStartPlanning
    \/ DoGetNextAction
    \/ DoContinuePlanning
    \/ DoApproveCheckpoint
    \/ DoRejectCheckpoint

Spec == Init /\ [][Next]_vars

\* The gate of the run_* dispatchers is shut: there is no session, or a
\* checkpoint is pending.
GateShut ==
    IF IsNone(Loaded(World).session) THEN TRUE
    ELSE \E i \in 1..Len(Val(Loaded(World).session).checkpoints) :
             Val(Loaded(World).session).checkpoints[i].status = PENDING

\* The run_* dispatchers called directly, with any layer and group id, in
\* the situations their gate is for.  (With the gate open they run as
\* continue_planning dispatches them.)  A call the gate refuses reads
\* neither the reply nor the clock.
RefusedReply == [raises |-> TRUE]

DoRunArchitectPhase ==
    /\ GateShut
    /\ \E reply \in IF RunArchitectPhase(World, RefusedReply, now).llm
                    THEN ArchReplies ELSE {RefusedReply} :
           \E t \in Clock(RunArchitectPhase(World, reply, now).ticked) :
               LET o == RunArchitectPhase(World, reply, t)
               IN /\ Becomes(o.w, o.ticked, t)
                  /\ last' = Last("run_architect_phase", o.error, o.llm, o.success,
                                  o.artifacts, NoAction, 0)
                  /\ runs' = IF o.success THEN runs + 1 ELSE runs
                  /\ UNCHANGED planned
                  /\ UNCHANGED flights

DoRunLayerPlanning ==
    /\ GateShut
    /\ \E layer_id \in LayerIds :
         \E reply \in IF RunLayerPlanning(World, layer_id, RefusedReply, now).llm
                      THEN LayerReplies ELSE {RefusedReply} :
           \E t \in Clock(RunLayerPlanning(World, layer_id, reply, now).ticked) :
               LET o == RunLayerPlanning(World, layer_id, reply, t)
               IN /\ Becomes(o.w, o.ticked, t)
                  /\ last' = Last("run_layer_planning", o.error, o.llm, o.success,
                                  o.artifacts, NoAction, 0)
                  /\ runs' = IF o.success THEN runs + 1 ELSE runs
                  /\ UNCHANGED planned
                  /\ UNCHANGED flights

DoRunGroupPlanning ==
    /\ GateShut
    /\ \E layer_id \in LayerIds, group_id \in GroupIds :
         \E reply \in IF RunGroupPlanning(World, layer_id, group_id, RefusedReply, now).llm
                      THEN GroupReplies ELSE {RefusedReply} :
           \E t \in Clock(RunGroupPlanning(World, layer_id, group_id, reply, now).ticked) :
               LET o == RunGroupPlanning(World, layer_id, group_id, reply, t)
               IN /\ Becomes(o.w, o.ticked, t)
                  /\ last' = Last("run_group_planning", o.error, o.llm, o.success,
                                  o.artifacts, NoAction, 0)
                  /\ runs' = IF o.success THEN runs + 1 ELSE runs
                  /\ UNCHANGED planned
                  /\ UNCHANGED flights

NextGate ==
    \/ Next
    \/ DoRunArchitectPhase
    \/ DoRunLayerPlanning
    \/ DoRunGroupPlanning

SpecGate == Init /\ [][NextGate]_vars

\* A phase run is a generator: calling it runs the dispatcher up to the
\* first chunk of the LLM stream (the gate, the pointer update, the save);
\* the rest (parse, save_artifacts, the checkpoint) runs when the stream is
\* exhausted.  A flight is a generator between the two.
Flight(phase, layer_id, group_id) ==
    [phase |-> phase, layer_id |-> layer_id, group_id |-> group_id]

\* A run_* dispatcher up to its `yield from phase.run(inputs)`.
RunBegin(w0, phase, layer_id, group_id, t) ==
    LET w == Loaded(w0)
    IN IF IsNone(w.session)
       THEN [w |-> w, error |-> "No planning session", ticked |-> FALSE]
       ELSE IF ~CanProceed(Val(w.session))
       THEN [w |-> w, error |-> "Pending checkpoint", ticked |-> FALSE]
       ELSE LET s == Val(w.session)
                s1 == IF phase = ARCHITECT
                      THEN [s EXCEPT !.current_phase = ARCHITECT]
                      ELSE IF phase = LAYER_PLANNING
                      THEN [s EXCEPT !.current_phase = LAYER_PLANNING,
                                     !.current_layer_id = layer_id]
                      ELSE [s EXCEPT !.current_phase = GROUP_PLANNING,
                                     !.current_group_id = group_id]
            IN [w |-> SaveSession([w EXCEPT !.session = Some(s1)], t),
                error |-> "", ticked |-> TRUE]

\* A run_* dispatcher from the end of the LLM stream on.
RunEnd(w, f, reply, t) ==
    IF reply.raises
    THEN Outcome(w, "LLM request failed", TRUE, FALSE, <<>>, FALSE)
    ELSE IF f.phase = ARCHITECT
    THEN LET out == ArchitectParseOutput(reply)
             sv == ArchitectSaveArtifacts(w, out)
         IN IF ~out.success
            THEN Outcome(w, "", TRUE, FALSE, <<>>, FALSE)
            ELSE FetchTechStackDocs(
                     Outcome(CreateCheckpoint(sv.w, ARCHITECT, Len(Val(out.layers)),
                                              sv.saved, t),
                             "", TRUE, TRUE, sv.saved, TRUE),
                     reply)
    ELSE IF f.phase = LAYER_PLANNING
    THEN LET out == LayerParseOutput(reply)
             sv == LayerSaveArtifacts(w, out)
         IN IF ~out.success
            THEN Outcome(w, "", TRUE, FALSE, <<>>, FALSE)
            ELSE Outcome(CreateCheckpoint(sv.w, LAYER_PLANNING,
                                          Len(Val(out.groups).groups), sv.saved, t),
                         "", TRUE, TRUE, sv.saved, TRUE)
    ELSE LET out == GroupParseOutput(reply)
             sv == GroupSaveArtifacts(w, out)
             w2 == CreateCheckpoint(sv.w, GROUP_PLANNING, out.task_ids, sv.saved, t)
             w3 == IF f.group_id \notin Range(Val(w2.session).completed_groups)
                   THEN SaveSession([w2 EXCEPT !.session[1].completed_groups =
                                                   Append(@, f.group_id)], t)
                   ELSE w2
         IN IF ~out.success
            THEN Outcome(w, "", TRUE, FALSE, <<>>, FALSE)
            ELSE Outcome(w3, "", TRUE, TRUE, sv.saved, TRUE)

\* continue_planning up to the first chunk of the stream.
ContinueBegin(w0, t) ==
    LET na == GetNextAction(w0, t)
        action == na.result.action
        b == RunBegin(na.w, action, na.result.layer_id, na.result.group_id, t)
    IN IF action = "start"
       THEN [w |-> na.w, error |-> "No session", ticked |-> na.ticked, flight |-> None]
       ELSE IF action = "checkpoint"
       THEN [w |-> na.w, error |-> "Pending checkpoint", ticked |-> na.ticked, flight |-> None]
       ELSE IF action = "completed"
       THEN [w |-> na.w, error |-> "Planning is complete", ticked |-> na.ticked,
             flight |-> None]
       ELSE [w |-> b.w, error |-> b.error, ticked |-> b.ticked \/ na.ticked,
             flight |-> IF b.error = "" THEN Some(Flight(action, na.result.layer_id,
                                                         na.result.group_id))
                        ELSE None]

\* The caller starts a phase run with continue_planning and takes its first
\* chunk, whether or not other runs are still streaming.
DoBeginRun ==
    /\ Len(flights) < MaxFlights
    /\ runs + Len(flights) < MaxRuns
    /\ \E t \in Clock(ContinueBegin(World, now).ticked) :
           LET o == ContinueBegin(World, t)
           IN /\ Becomes(o.w, o.ticked, t)
              /\ last' = Last("begin_run", o.error, FALSE, FALSE, <<>>, NoAction, 0)
              /\ flights' = flights \o o.flight
              /\ UNCHANGED <<runs, planned>>

\* The stream of an open run ends (or raises) and the generator runs to its
\* end.
DoEndRun ==
    \E k \in 1..Len(flights) :
        \E reply \in RepliesFor(flights[k].phase) :
            \E t \in Clock(RunEnd(World, flights[k], reply, now).ticked) :
                LET o == RunEnd(World, flights[k], reply, t)
                IN /\ Becomes(o.w, o.ticked, t)
                   /\ last' = Last("end_run", o.error, o.llm, o.success,
                                   o.artifacts, NoAction, 0)
                   /\ flights' = SubSeq(flights, 1, k - 1)
                                     \o SubSeq(flights, k + 1, Len(flights))
                   /\ runs' = IF o.success THEN runs + 1 ELSE runs
                   /\ UNCHANGED planned

NextStream ==
    \/ DoStartPlanning
    \/ DoGetNextAction
    \/ DoBeginRun
    \/ DoEndRun
    \/ DoApproveCheckpoint
    \/ DoRejectCheckpoint

SpecStream == Init /\ [][NextStream]_vars

\* A generator of chat_stream between its request and its end.
Generator(owner, before, sent) ==
    [owner |-> owner, before |-> before, sent |-> sent, received |-> <<>>,
     full_response |-> "", run_response |-> "", parsed |-> <<>>]

\* The REPL sends a user message on its conversation: chat_stream runs up
\* to the request to the backend.
DoChatBegin ==
    /\ IsNone(gen)
    /\ heard.calls < MaxCalls
    /\ \E user_message \in UserMessages :
           \E reply \in IF Summarizes(context.repl, user_message)
                        THEN SummarizerReplies ELSE {None} :
               LET m == ChatStreamBegin(context.repl, user_message, reply)
                   before == context.repl.messages
               IN /\ context' = [context EXCEPT !.repl = m]
                  /\ gen' = Some(Generator("repl", before, m.messages))
                  /\ heard' = Heard("begin", "repl", heard.calls + 1, before, m.messages,
                                    <<>>, <<>>, "", None, <<>>, None)
    /\ UNCHANGED <<planVars, pureVars>>

\* PhaseRunner.run up to the request to the backend: a conversation is
\* created and chat_stream is called with the full prompt.
DoPhaseBegin ==
    /\ IsNone(gen)
    /\ heard.calls < MaxCalls
    /\ \E full_prompt \in PhasePrompts :
           LET conversation == CreateFreshConversation
               m == ChatStreamBegin(conversation, full_prompt, None)
           IN /\ context' = [context EXCEPT !.phase = m]
              /\ gen' = Some(Generator("phase", conversation.messages, m.messages))
              /\ heard' = Heard("begin", "phase", heard.calls + 1, conversation.messages,
                                m.messages, context.phase.messages, <<>>, "", None,
                                <<>>, None)
    /\ UNCHANGED <<planVars, pureVars>>

\* The transport delivers the next fragment: chat_stream accumulates and
\* yields it; PhaseRunner.run accumulates and yields it in turn.
DoFragment ==
    /\ ~IsNone(gen)
    /\ Len(Val(gen).received) < MaxFragments
    /\ LET g == Val(gen)
           text == Fragment(Len(g.received) + 1)
           run_response == IF g.owner = "phase" THEN g.run_response \o text ELSE ""
           parsed == IF g.owner = "phase" THEN RunChunk(g.parsed, run_response) ELSE <<>>
       IN /\ gen' = Some([g EXCEPT !.received = Append(@, text),
                                   !.full_response = @ \o text,
                                   !.run_response = run_response,
                                   !.parsed = parsed])
          /\ heard' = [heard EXCEPT !.op = "fragment", !.chunks = Append(@, text),
                                    !.parsed = parsed]
    /\ UNCHANGED <<context, planVars, pureVars>>

\* The stream ends: chat_stream records the assistant message and returns
\* the full response; PhaseRunner.run parses what it accumulated.
DoStreamEnd ==
    /\ ~IsNone(gen)
    /\ LET g == Val(gen)
           parsed == IF g.owner = "phase" THEN RunParse(g.parsed, g.run_response) ELSE <<>>
       IN /\ context' = [context EXCEPT ![g.owner] = ChatStreamEnd(@, g.full_response)]
          /\ heard' = [heard EXCEPT !.op = "end", !.returned = Some(g.full_response),
                                    !.parsed = parsed,
                                    !.raw_response = IF g.owner = "phase"
                                                     THEN Some(g.run_response) ELSE None]
    /\ gen' = None
    /\ UNCHANGED <<planVars, pureVars>>

\* The transport raises (API error, claude CLI exit code): chat_stream's
\* handler runs and RuntimeError("LLM request failed: ...") reaches the
\* consumer; PhaseRunner.run lets it through.
DoTransportFails ==
    /\ ~IsNone(gen)
    /\ context' = [context EXCEPT ![Val(gen).owner] = ChatStreamExcept(@)]
    /\ heard' = [heard EXCEPT !.op = "fail", !.error = "LLM request failed"]
    /\ gen' = None
    /\ UNCHANGED <<planVars, pureVars>>

\* The consumer abandons the stream: it closes the generator after a
\* fragment, or a keyboard interrupt is raised while the generator runs.
DoAbandon ==
    /\ ~IsNone(gen)
    /\ context' = [context EXCEPT ![Val(gen).owner] = ChatStreamAbandoned(@)]
    /\ heard' = [heard EXCEPT !.op = "abandon"]
    /\ gen' = None
    /\ UNCHANGED <<planVars, pureVars>>

\* A REPL conversation, starting from a history of completed exchanges.
InitChat == InitPlanner /\ InitPure /\ \E n \in 0..MaxHistory : InitConversation(n)

NextChat ==
    \/ DoChatBegin
    \/ DoFragment
    \/ DoStreamEnd
    \/ DoTransportFails
    \/ DoAbandon

SpecChat == InitChat /\ [][NextChat]_vars

\* Phase runs and REPL exchanges, one after the other.
NextPhase ==
    \/ DoPhaseBegin
    \/ DoChatBegin
    \/ DoFragment
    \/ DoStreamEnd
    \/ DoTransportFails
    \/ DoAbandon

SpecPhase == Init /\ [][NextPhase]_vars

\* A function under study is applied to the argument drawn.
Applied(f) == input # None /\ output # None /\ output[1].f = f

\* TechnicalArchitectPhase.parse_output is called on a reply.
DoArchitectParseOutput ==
    /\ ~IsNone(input)
    /\ IsNone(output)
    /\ output' = Some([f |-> "architect.parse_output",
                       ret |-> ArchitectParseResponse(Val(input))])
    /\ UNCHANGED <<input, planVars, chatVars>>

InitArchitectParse ==
    /\ InitPlanner
    /\ InitConversation(0)
    /\ input \in {Some(r) : r \in ArchitectResponses}
    /\ output = None

SpecArchitectParse == InitArchitectParse /\ [][DoArchitectParseOutput]_vars

\* GroupPlannerPhase.parse_output is called on a reply.
DoGroupParseOutput ==
    /\ ~IsNone(input)
    /\ IsNone(output)
    /\ output' = Some([f |-> "group.parse_output",
                       ret |-> GroupParseResponse(Tokens(Val(input), 1))])
    /\ UNCHANGED <<input, planVars, chatVars>>

InitGroupParse ==
    /\ InitPlanner
    /\ InitConversation(0)
    /\ input \in {Some(r) : r \in GroupResponses}
    /\ output = None

SpecGroupParse == InitGroupParse /\ [][DoGroupParseOutput]_vars

\* A value is written with to_dict and read back with from_dict.
DoRoundTrip ==
    /\ ~IsNone(input)
    /\ IsNone(output)
    /\ output' = Some([f |-> "round_trip",
                       ret |-> RoundTrip(Val(input).cls, Val(input).value)])
    /\ UNCHANGED <<input, planVars, chatVars>>

InitRoundTrip ==
    /\ InitPlanner
    /\ InitConversation(0)
    /\ \/ \E x \in TechStacks : input = Some([cls |-> "TechStack", value |-> x])
       \/ \E x \in LayerDefinitions : input = Some([cls |-> "LayerDefinition", value |-> x])
       \/ \E x \in GroupDefinitions : input = Some([cls |-> "GroupDefinition", value |-> x])
       \/ \E x \in FullSessions : input = Some([cls |-> "PlanningSession", value |-> x])
    /\ output = None

SpecRoundTrip == InitRoundTrip /\ [][DoRoundTrip]_vars

\* The checkpoint ids a caller of CheckpointManager can name on session s:
\* the id of each of its checkpoints, and one no checkpoint has.
IdsFor(s) == 1..(Len(s.checkpoints) + 1)

\* The record of a CheckpointManager call: the id it named and the
\* checkpoint it returned (its index, 0 for None).
LastCm(op, checkpoint_id, found) ==
    Last(op, "", FALSE, FALSE, <<>>, [NoAction EXCEPT !.checkpoint_id = checkpoint_id], found)

\* CheckpointManager.approve_checkpoint / reject_checkpoint called directly
\* on the orchestrator's session, with any id.
DoCmApproveCheckpoint ==
    /\ ~IsNone(session)
    /\ \E checkpoint_id \in IdsFor(Val(session)), feedback \in Feedbacks :
           \E t \in Clock(CmApproveCheckpoint(World, checkpoint_id, feedback, now).found # 0) :
               LET r == CmApproveCheckpoint(World, checkpoint_id, feedback, t)
               IN /\ Becomes(r.w, r.found # 0, t)
                  /\ last' = LastCm("cm_approve_checkpoint", checkpoint_id, r.found)
                  /\ UNCHANGED <<runs, flights, planned>>

DoCmRejectCheckpoint ==
    /\ ~IsNone(session)
    /\ \E checkpoint_id \in IdsFor(Val(session)), feedback \in Feedbacks :
           \E t \in Clock(CmRejectCheckpoint(World, checkpoint_id, feedback, now).found # 0) :
               LET r == CmRejectCheckpoint(World, checkpoint_id, feedback, t)
               IN /\ Becomes(r.w, r.found # 0, t)
                  /\ last' = LastCm("cm_reject_checkpoint", checkpoint_id, r.found)
                  /\ UNCHANGED <<runs, flights, planned>>

NextManager ==
    \/ Next
    \/ DoCmApproveCheckpoint
    \/ DoCmRejectCheckpoint

SpecManager == Init /\ [][NextManager]_vars

\* build_group_context is called for group g2 on a groups document and on
\* one that differs from it only in the exports of another group.
DoBuildGroupContext ==
    /\ ~IsNone(input)
    /\ IsNone(output)
    /\ output' = Some([f |-> "build_group_context",
                       ret |-> [text |-> BuildGroupContext(Some(Val(input).doc), "g2",
                                                           Val(input).has_tech_stack),
                                other |-> BuildGroupContext(Some(Val(input).other), "g2",
                                                            Val(input).has_tech_stack)]])
    /\ UNCHANGED <<input, planVars, chatVars>>

InitGroupContext ==
    /\ InitPlanner
    /\ InitConversation(0)
    /\ \E doc \in ContextDocs, has_tech_stack \in BOOLEAN :
           \E other \in ExportVariants(doc, "g2") :
               input = Some([doc |-> doc, other |-> other, has_tech_stack |-> has_tech_stack])
    /\ output = None

SpecGroupContext == InitGroupContext /\ [][DoBuildGroupContext]_vars

\* The planner with a ledger of the runs that succeeded.  A step is what
\* get_next_action offers for continue_planning to run: the action and the
\* ids it names; `current` tells that the run was made in the session the
\* orchestrator holds now.
Step(action, layer_id, group_id, current) ==
    [action |-> action, layer_id |-> layer_id, group_id |-> group_id, current |-> current]

\* The step a dict of get_next_action names.
StepOf(result) == Step(result.action, result.layer_id, result.group_id, TRUE)

\* start_planning: the runs made so far are those of an earlier session.
DoLedgerStartPlanning ==
    \E id \in SessionIds, greenfield \in Greenfield, t \in Clock(TRUE) :
        /\ Becomes(StartPlanning(World, id, greenfield, t), TRUE, t)
        /\ last' = Last("start_planning", "", FALSE, FALSE, <<>>, NoAction, 0)
        /\ planned' = {[p EXCEPT !.current = FALSE] : p \in planned}
        /\ UNCHANGED <<runs, flights>>

\* continue_planning: the run it dispatched to is entered when the phase
\* result says success.
DoLedgerContinuePlanning ==
    /\ runs < MaxLedgerRuns
    /\ \E reply \in RepliesFor(Offered.action) :
           \E t \in Clock(ContinuePlanning(World, reply, now).ticked) :
               LET o == ContinuePlanning(World, reply, t)
               IN /\ Becomes(o.w, o.ticked, t)
                  /\ last' = Last("continue_planning", o.error, o.llm, o.success,
                                  o.artifacts, NoAction, 0)
                  /\ runs' = IF o.success THEN runs + 1 ELSE runs
                  /\ planned' = IF o.success THEN planned \cup {StepOf(Offered)} ELSE planned
                  /\ UNCHANGED flights

NextLedger ==
    \/ DoLedgerStartPlanning
    \/ DoGetNextAction
    \/ DoLedgerContinuePlanning
    \/ DoApproveCheckpoint
    \/ DoRejectCheckpoint

\* The ledger is kept from a directory before planning has started, as in
\* InitPlanner, with the clock at the last value it takes: every call reads
\* the same time, and the stamps, which no ledger property reads, tell an
\* absent time (0) from a written one.
InitLedger ==
    /\ session = None
    /\ disk = None
    /\ tech_stack = None
    /\ layers_yaml = None
    /\ groups_yaml = [l \in LayerIds |-> None]
    /\ now = MaxClock
    /\ runs = 0
    /\ flights = <<>>
    /\ planned = {}
    /\ last = [op |-> "init", error |-> "", llm |-> FALSE, success |-> FALSE,
               artifacts |-> <<>>, result |-> NoAction, ret |-> 0, again |-> FALSE]
    /\ InitConversation(0)
    /\ InitPure

SpecLedger == InitLedger /\ [][NextLedger]_vars

\* ------------------------------------------------------------- properties
\* The indices of the PENDING checkpoints of session s.
Pending(s) == {i \in 1..Len(s.checkpoints) : s.checkpoints[i].status = PENDING}

\* The record l tells of a continue_planning whose phase ran and ended in a
\* parse failure: the LLM answered, nothing was raised, success is false.
ParseFailed(l) == l.op = "continue_planning" /\ l.llm /\ l.error = "" /\ ~l.success

\* The session fields that tell where planning stands.
Pointers(s) ==
    <<s.current_phase, s.current_layer_id, s.current_group_id,
      s.completed_layers, s.completed_groups>>

\* A session and the layers document exist and no checkpoint is pending:
\* get_next_action gets as far as scanning the layers.
Scanning ==
    IF IsNone(session) \/ IsNone(layers_yaml) THEN FALSE
    ELSE Pending(Val(session)) = {}

\* The groups of layer l that are not in completed_groups, as indices into
\* its groups document.
OpenGroups(l) ==
    {j \in 1..Len(Val(groups_yaml[l]).groups) :
         Val(groups_yaml[l]).groups[j].id \notin Range(Val(session).completed_groups)}

\* Layer l has a groups document and every group of it is completed.
AllGroupsCompleted(l) ==
    IF IsNone(groups_yaml[l]) THEN FALSE ELSE OpenGroups(l) = {}

NoDuplicates(seq) == \A i, j \in 1..Len(seq) : seq[i] = seq[j] => i = j

\* The session a process starting now would load from planning/session.yaml.
Persisted == LoadSession(World)

\* C1: after any sequence of start_planning, continue_planning,
\* approve_checkpoint and reject_checkpoint, the session's checkpoint list,
\* in memory and as persisted, holds at most one PENDING checkpoint.
C1_AtMostOnePending ==
    \A o \in {session, Persisted} :
        IF IsNone(o) THEN TRUE ELSE Cardinality(Pending(Val(o))) <= 1

\* A phase has succeeded after an earlier checkpoint was settled: the list
\* holds several checkpoints and exactly the newest is pending.
C1_Witness ==
    /\ last.op = "continue_planning" /\ last.success
    /\ ~IsNone(session)
    /\ Len(Val(session).checkpoints) >= 2
    /\ Pending(Val(session)) = {Len(Val(session).checkpoints)}

\* C2: continue_planning and each run_* dispatcher, called with no session
\* or while a checkpoint is pending, raise an error without calling the LLM
\* and leave the session and every planning document as they were.
GateCalls ==
    {"continue_planning", "run_architect_phase", "run_layer_planning", "run_group_planning"}

C2_GateRefuses ==
    [][(last'.op \in GateCalls /\ GateShut) =>
           /\ last'.error # ""
           /\ ~last'.llm
           /\ session' = session
           /\ disk' = disk
           /\ tech_stack' = tech_stack
           /\ layers_yaml' = layers_yaml
           /\ groups_yaml' = groups_yaml]_vars

\* run_group_planning was called directly while a checkpoint was pending
\* and refused.
C2_Witness ==
    /\ last.op = "run_group_planning"
    /\ last.error = "Pending checkpoint"
    /\ ~IsNone(session)
    /\ Pending(Val(session)) # {}

\* C3: whenever a session exists and a checkpoint is pending,
\* get_next_action answers "checkpoint" with that checkpoint's id and phase,
\* whatever documents and completed sets exist; so did the call just made.
C3_PendingBlocks ==
    IF IsNone(session) THEN TRUE
    ELSE \A i \in Pending(Val(session)) :
             LET c == Val(session).checkpoints[i]
                 answer == NextAction("checkpoint", NoneId, NoneId, c.id, c.phase)
             IN /\ Offered = answer
                /\ (last.op = "get_next_action" => last.result = answer)

\* get_next_action answered "checkpoint" while the layers document and a
\* groups document with an open group were there to be planned.
C3_Witness ==
    /\ last.op = "get_next_action"
    /\ last.result.action = "checkpoint"
    /\ ~IsNone(layers_yaml)
    /\ \E l \in LayerIds : ~IsNone(groups_yaml[l]) /\ OpenGroups(l) # {}

\* C4: after reject_checkpoint rejects the pending checkpoint of phase step
\* P, get_next_action offers P again: the architect phase, layer planning
\* of the layer just planned, or group planning of the group just planned.
C4_RejectReoffers ==
    IF last.op = "reject_checkpoint" /\ last.ret # 0
    THEN LET s == Val(session)
             c == s.checkpoints[last.ret]
         IN /\ Offered.action = c.phase
            /\ c.phase = LAYER_PLANNING => Offered.layer_id = s.current_layer_id
            /\ c.phase = GROUP_PLANNING => Offered.group_id = s.current_group_id
    ELSE TRUE

\* C5: a continue_planning whose phase ends in a parse failure creates no
\* checkpoint and leaves current_phase, current_layer_id, current_group_id,
\* completed_layers and completed_groups as they were before the call.
C5_FailureKeepsPointers ==
    [][ParseFailed(last') =>
           /\ Len(Val(session').checkpoints) = Len(Val(session).checkpoints)
           /\ Pointers(Val(session')) = Pointers(Val(session))]_vars

\* C6: after a phase run that ended in a parse failure, get_next_action
\* answers what it answered before the run: the same action with the same
\* layer and group id.  Holding at every such step, it holds for any number
\* of failures in a row.
C6_FailureReoffers == [][ParseFailed(last') => Offered' = Offered]_vars

\* A group-planner reply with no task block: group planning of the same
\* group is on offer again.
C6_Witness ==
    /\ ParseFailed(last)
    /\ Offered.action = "group_planning"
    /\ Val(session).current_group_id = Offered.group_id

\* C7: get_next_action names, in a layer_planning or group_planning answer,
\* the layer of smallest numeric `order` among those that are not in
\* completed_layers and do not have all their groups completed.
C7_ScansByOrder ==
    IF Scanning /\ Offered.action \in {"layer_planning", "group_planning"}
    THEN LET layers == Val(layers_yaml).layers
             Unfinished == {i \in 1..Len(layers) :
                                /\ layers[i].id \notin Range(Val(session).completed_layers)
                                /\ ~AllGroupsCompleted(layers[i].id)}
         IN \E i \in Unfinished :
                /\ layers[i].id = Offered.layer_id
                /\ \A j \in Unfinished : layers[i].order <= layers[j].order
    ELSE TRUE

AllPlanned ==
    IF Scanning
    THEN \A l \in Range(Val(layers_yaml).layers) : AllGroupsCompleted(l.id)
    ELSE FALSE

C9_Completed ==
    /\ AllPlanned => Offered.action = "completed"
    /\ (last.op = "get_next_action" /\ last.result.action = "completed") =>
           \A o \in {session, Persisted} :
               /\ ~IsNone(o)
               /\ Val(o).current_phase = COMPLETED
               /\ \A l \in Range(Val(layers_yaml).layers) :
                      l.id \in Range(Val(o).completed_layers)

\* get_next_action answered "completed" for a plan with at least one layer
\* and a layer with a planned group, and the persisted phase is completed.
C9_Witness ==
    /\ last.op = "get_next_action"
    /\ last.result.action = "completed"
    /\ Len(Val(layers_yaml).layers) >= 1
    /\ \E l \in Range(Val(layers_yaml).layers) :
           ~IsNone(groups_yaml[l.id]) /\ Len(Val(groups_yaml[l.id]).groups) >= 1
    /\ Val(disk).current_phase = COMPLETED

\* C10 as stated: of two get_next_action calls in a row the second returns
\* what the first returned and leaves every session field as the first left
\* it, and no layer id ever appears twice in completed_layers.
C10_Idempotent ==
    [][/\ last'.again => (last'.result = last.result /\ session' = session)
       /\ (~IsNone(session') => NoDuplicates(Val(session').completed_layers))]_vars

\* C10 amended: the second call returns what the first returned and leaves
\* every session field except the `updated` stamp as the first left it (a
\* call answering "completed" saves the session again), in memory and as
\* persisted; no layer id ever appears twice in completed_layers.
SameButUpdated(a, b) ==
    IF IsNone(a) \/ IsNone(b) THEN a = b
    ELSE [Val(a) EXCEPT !.updated = 0] = [Val(b) EXCEPT !.updated = 0]

C10_IdempotentButUpdated ==
    [][/\ last'.again =>
              /\ last'.result = last.result
              /\ SameButUpdated(session', session)
              /\ SameButUpdated(disk', disk)
       /\ (~IsNone(session') => NoDuplicates(Val(session').completed_layers))]_vars

\* get_next_action was called twice in a row on a plan whose layers it had
\* marked completed, and answered "completed".
C10_Witness ==
    /\ last.again
    /\ last.result.action = "completed"
    /\ Len(Val(session).completed_layers) >= 1

\* C11: approve_checkpoint and reject_checkpoint, called with no session or
\* with no PENDING checkpoint, return None and change neither the checkpoint
\* list nor any other session field, in memory or as persisted.
NothingPending == IF IsNone(session) THEN TRUE ELSE Pending(Val(session)) = {}

C11_NothingToSettle ==
    [][(last'.op \in {"approve_checkpoint", "reject_checkpoint"} /\ NothingPending) =>
           /\ last'.ret = 0
           /\ session' = session
           /\ disk' = disk]_vars

\* reject_checkpoint returned None on a session whose checkpoints are all
\* settled.
C11_Witness ==
    /\ last.op = "reject_checkpoint"
    /\ last.ret = 0
    /\ ~IsNone(session)
    /\ Len(Val(session).checkpoints) >= 1
    /\ Pending(Val(session)) = {}

\* C12: CheckpointManager.approve_checkpoint and reject_checkpoint change
\* the checkpoint they name if and only if it is PENDING; naming a settled
\* checkpoint or an unknown id they return None and leave the session
\* unchanged.
C12_SettlesOnlyPending ==
    [][last'.op \in {"cm_approve_checkpoint", "cm_reject_checkpoint"} =>
           LET s == Val(session)
               id == last'.result.checkpoint_id
               named == {i \in 1..Len(s.checkpoints) : s.checkpoints[i].id = id}
           IN IF \E i \in named : s.checkpoints[i].status = PENDING
              THEN /\ last'.ret \in named
                   /\ Val(session').checkpoints[last'.ret].status =
                          (IF last'.op = "cm_approve_checkpoint" THEN APPROVED ELSE REJECTED)
              ELSE /\ last'.ret = 0
                   /\ session' = session
                   /\ disk' = disk]_vars

\* C13: once a checkpoint is APPROVED or REJECTED none of its fields changes
\* under continue_planning, approve_checkpoint, reject_checkpoint or
\* get_next_action: it stays in the list, at its place, as it was.
C13_SettledImmutable ==
    [][(/\ last'.op \in {"continue_planning", "approve_checkpoint",
                         "reject_checkpoint", "get_next_action"}
        /\ ~IsNone(session)) =>
           \A i \in 1..Len(Val(session).checkpoints) :
               Val(session).checkpoints[i].status # PENDING =>
                   /\ ~IsNone(session')
                   /\ i <= Len(Val(session').checkpoints)
                   /\ Val(session').checkpoints[i] = Val(session).checkpoints[i]]_vars

\* A second checkpoint was approved after the first had been rejected, and
\* the first is still rejected.
C13_Witness ==
    /\ last.op = "approve_checkpoint"
    /\ last.ret = 2
    /\ Val(session).checkpoints[1].status = REJECTED
    /\ Val(session).checkpoints[2].status = APPROVED

\* C14: a checkpoint is appended only at the end of a phase run whose result
\* has success = true: exactly one per such run, PENDING, tagged with the
\* phase that ran and carrying the artifact paths the run saved; every other
\* operation on the session leaves the list as long as it was, and a status
\* leaves PENDING only in the approve_checkpoint or reject_checkpoint call
\* that returns that checkpoint.
C14_CheckpointPerSuccess ==
    [][(~IsNone(session) /\ last'.op # "start_planning") =>
           LET old == Val(session).checkpoints
               new == Val(session').checkpoints
           IN /\ IF last'.op = "continue_planning" /\ last'.success
                 THEN /\ Len(new) = Len(old) + 1
                      /\ new[Len(new)].status = PENDING
                      /\ new[Len(new)].phase = Offered.action
                      /\ new[Len(new)].artifacts = last'.artifacts
                 ELSE Len(new) = Len(old)
              /\ \A i \in 1..Len(old) :
                     /\ new[i].phase = old[i].phase
                     /\ new[i].artifacts = old[i].artifacts
                     /\ (old[i].status = PENDING /\ new[i].status # PENDING) =>
                            /\ last'.op \in {"approve_checkpoint", "reject_checkpoint"}
                            /\ last'.ret = i]_vars

\* A layer-planning run succeeded and its checkpoint carries the groups
\* document the run saved.
C14_Witness ==
    /\ last.op = "continue_planning" /\ last.success
    /\ Len(last.artifacts) = 1
    /\ LET cps == Val(session).checkpoints
       IN /\ cps[Len(cps)].phase = LAYER_PLANNING
          /\ cps[Len(cps)].status = PENDING
          /\ cps[Len(cps)].artifacts = last.artifacts

\* C15: on a fresh session with no layers document get_next_action answers
\* "architect"; once the architect run has succeeded it answers "checkpoint"
\* with phase architect; after that checkpoint is approved, with a layers
\* document of at least one layer and no groups document, it answers
\* "layer_planning" for the layer of lowest `order`.
FreshAnswer ==
    (~IsNone(session) /\ IsNone(layers_yaml) /\ Val(session).checkpoints = <<>>)
        => Offered.action = "architect"

AnswerAfterArchitect ==
    IF last.op = "continue_planning" /\ last.success
    THEN LET cps == Val(session).checkpoints
         IN cps[Len(cps)].phase = ARCHITECT =>
                Offered = NextAction("checkpoint", NoneId, NoneId, cps[Len(cps)].id, ARCHITECT)
    ELSE TRUE

AnswerAfterApproval ==
    IF last.op = "approve_checkpoint" /\ last.ret # 0
    THEN (/\ Val(session).checkpoints[last.ret].phase = ARCHITECT
          /\ Len(Val(layers_yaml).layers) >= 1
          /\ \A l \in LayerIds : IsNone(groups_yaml[l]))
         => LET layers == Val(layers_yaml).layers
            IN /\ Offered.action = "layer_planning"
               /\ \E i \in 1..Len(layers) :
                      /\ layers[i].id = Offered.layer_id
                      /\ \A j \in 1..Len(layers) : layers[i].order <= layers[j].order
    ELSE TRUE

C15_FirstSteps == FreshAnswer /\ AnswerAfterArchitect /\ AnswerAfterApproval

\* C16: once start_planning has created a session no later operation, a
\* further start_planning included, removes it or discards its recorded
\* checkpoints, completed_layers or completed_groups; a PENDING checkpoint
\* does not disappear without being approved or rejected.
IsPrefix(a, b) == Len(a) <= Len(b) /\ \A i \in 1..Len(a) : b[i] = a[i]

C16_SessionKept ==
    [][~IsNone(session) =>
           /\ ~IsNone(session')
           /\ Len(Val(session').checkpoints) >= Len(Val(session).checkpoints)
           /\ IsPrefix(Val(session).completed_layers, Val(session').completed_layers)
           /\ IsPrefix(Val(session).completed_groups, Val(session').completed_groups)
           /\ \A i \in Pending(Val(session)) :
                  \/ Val(session').checkpoints[i].status = PENDING
                  \/ (last'.op \in {"approve_checkpoint", "reject_checkpoint"}
                      /\ last'.ret = i)]_vars

\* C17: progression terminates: every successful phase run, once its
\* checkpoint is settled, leaves less to plan, so that get_next_action
\* reaches "completed" after finitely many successful runs.  Stated on the
\* single run: the step a successful run was offered for is not what
\* get_next_action offers once the run's checkpoint is approved or rejected.
\* (Were it offered again, the same reply would be accepted again, and so on
\* for ever, every run succeeding and every checkpoint being settled.)
OfferedOnceSettled ==
    LET Settle(c) == [c EXCEPT !.status = IF @ = PENDING THEN APPROVED ELSE @]
        s == Val(session)
        settled == [s EXCEPT !.checkpoints = [i \in 1..Len(@) |-> Settle(@[i])]]
    IN GetNextAction([World EXCEPT !.session = Some(settled)], now).result

C17_SuccessAdvances ==
    [][(last'.op = "continue_planning" /\ last'.success) =>
           OfferedOnceSettled' # Offered]_vars

\* C18: at most one phase run is in flight: a phase run started while
\* another has started and is still streaming is refused, so two
\* interleaved runs never both create a checkpoint (no two are PENDING).
C18_OneRunInFlight ==
    [][/\ (last'.op = "begin_run" /\ Len(flights) >= 1) =>
              (last'.error # "" /\ flights' = flights)
       /\ Len(flights') <= 1
       /\ (~IsNone(session') => Cardinality(Pending(Val(session'))) <= 1)]_vars

\* Two checkpoints are PENDING at once.
TwoPending == IF IsNone(session) THEN FALSE ELSE Cardinality(Pending(Val(session))) >= 2

\* A whole run is its beginning followed by its end.
WholeRunIsBeginThenEnd ==
    IF IsNone(session) THEN TRUE
    ELSE IF Pending(Val(session)) # {} THEN TRUE
    ELSE /\ \A reply \in ArchReplies :
                LET b == RunBegin(World, ARCHITECT, NoneId, NoneId, now)
                    e == RunEnd(b.w, Flight(ARCHITECT, NoneId, NoneId), reply, now)
                    r == RunArchitectPhase(World, reply, now)
                IN e.w = r.w /\ e.success = r.success /\ e.artifacts = r.artifacts
         /\ \A l \in LayerIds, reply \in LayerReplies :
                LET b == RunBegin(World, LAYER_PLANNING, l, NoneId, now)
                    e == RunEnd(b.w, Flight(LAYER_PLANNING, l, NoneId), reply, now)
                    r == RunLayerPlanning(World, l, reply, now)
                IN e.w = r.w /\ e.success = r.success /\ e.artifacts = r.artifacts
         /\ \A l \in LayerIds, g \in GroupIds, reply \in GroupReplies :
                LET b == RunBegin(World, GROUP_PLANNING, l, g, now)
                    e == RunEnd(b.w, Flight(GROUP_PLANNING, l, g), reply, now)
                    r == RunGroupPlanning(World, l, g, reply, now)
                IN e.w = r.w /\ e.success = r.success /\ e.artifacts = r.artifacts

\* C19: the session is written through: between operations the persisted
\* session document, loaded back, equals the in-memory session, so a fresh
\* orchestrator that loads the document computes the same get_next_action
\* result as the live one.
C19_WriteThrough ==
    /\ Persisted = session
    /\ GetNextAction([World EXCEPT !.session = None], now).result = Offered

\* An approval has just completed a layer: the checkpoint of the layer's
\* last group is approved and stamped, the layer is in completed_layers and
\* the layer pointer is cleared, in the document too.
C19_Witness ==
    IF IsNone(session) \/ IsNone(disk) THEN FALSE
    ELSE LET s == Val(session)
             n == Len(s.checkpoints)
         IN /\ last.op = "approve_checkpoint"
            /\ last.ret = n
            /\ n >= 3
            /\ s.checkpoints[n].phase = GROUP_PLANNING
            /\ s.checkpoints[n].approved_at # 0
            /\ Len(s.completed_layers) >= 1
            /\ s.current_layer_id = NoneId
            /\ IsNone(Val(disk).current_layer_id)
            /\ Val(disk).checkpoints[n].approved_at = Some(s.checkpoints[n].approved_at)

\* C20: a phase run writes planning artifacts (the tech-stack and layers
\* documents, a groups document) only when the reply parsed: a run whose
\* parse failed leaves every artifact as it was and reports an empty
\* artifact list, and any step that changes an artifact is a successful run.
C20_ArtifactsOnlyOnSuccess ==
    [][/\ ParseFailed(last') =>
              /\ tech_stack' = tech_stack
              /\ layers_yaml' = layers_yaml
              /\ groups_yaml' = groups_yaml
              /\ last'.artifacts = <<>>
       /\ <<tech_stack', layers_yaml', groups_yaml'>> # <<tech_stack, layers_yaml, groups_yaml>> =>
              (last'.op = "continue_planning" /\ last'.success)]_vars

\* An architect reply failed to parse: the architect phase is current, no
\* tech-stack or layers document exists and the result lists no artifact.
C20_Witness ==
    /\ ParseFailed(last)
    /\ Val(session).current_phase = ARCHITECT
    /\ IsNone(tech_stack)
    /\ IsNone(layers_yaml)
    /\ last.artifacts = <<>>

\* C21: every phase run opens a fresh conversation: the message list sent
\* to the LLM in a phase run is exactly one user message, the run's full
\* prompt, and holds no message of an earlier run or attempt.
C21_FreshConversation ==
    heard.owner = "phase" =>
        /\ heard.before = <<>>
        /\ \E full_prompt \in PhasePrompts : heard.sent = <<Message("user", full_prompt)>>

\* A phase run is streaming after an earlier run that left a user and an
\* assistant message in its own conversation.
C21_Witness ==
    /\ heard.owner = "phase"
    /\ heard.op = "fragment"
    /\ Len(heard.earlier) = 2
    /\ Len(heard.sent) = 1

\* C22: in a phase run every fragment received from the stream is forwarded
\* to the caller in arrival order; parse_output is invoked exactly once,
\* only after the stream has ended, on the in-order concatenation of the
\* forwarded fragments, and that concatenation is the result's raw_response.
C22_ParseAfterStream ==
    heard.owner = "phase" =>
        /\ heard.chunks = [i \in 1..Len(heard.chunks) |-> Fragment(i)]
        /\ ~IsNone(gen) => heard.chunks = Val(gen).received
        /\ IF heard.op = "end"
           THEN /\ heard.parsed = <<Concat(heard.chunks)>>
                /\ heard.raw_response = Some(Concat(heard.chunks))
           ELSE /\ heard.parsed = <<>>
                /\ heard.raw_response = None

\* A phase run has ended after two fragments: its raw response is their
\* concatenation.
C22_Witness ==
    /\ heard.owner = "phase"
    /\ heard.op = "end"
    /\ heard.chunks = <<"a", "b">>
    /\ heard.raw_response = Some("ab")

\* C23 as stated: when the transport fails during chat_stream, before or
\* after fragments were yielded, the failure surfaces as one wrapped "LLM
\* request failed" error and the conversation's message list is exactly
\* what it was before the call.
C23_FailureRestores ==
    heard.op = "fail" =>
        /\ heard.error = "LLM request failed"
        /\ context[heard.owner].messages = heard.before

\* C23 amended: the failure surfaces as one wrapped "LLM request failed"
\* error, the triggering user message is removed and no assistant message
\* is added; the message list is what it was before the call, except that
\* a call which summarized the history on its way in leaves only the last
\* five messages of it, the older ones being folded into the summary.
C23_FailureRemovesUserMessage ==
    heard.op = "fail" =>
        LET messages == context[heard.owner].messages
            n == Len(heard.before)
        IN /\ heard.error = "LLM request failed"
           /\ messages = SubSeq(heard.sent, 1, Len(heard.sent) - 1)
           /\ \/ messages = heard.before
              \/ /\ n >= 9
                 /\ messages = SubSeq(heard.before, n - 4, n)
                 /\ context[heard.owner].summary # ""

\* The transport failed after a fragment, in a call that had summarized
\* the history: the list is shorter than before the call.
C23_Witness ==
    /\ heard.op = "fail"
    /\ Len(heard.chunks) >= 1
    /\ context[heard.owner].summary # ""
    /\ Len(context[heard.owner].messages) < Len(heard.before)

\* The transport failed before any fragment, in a call that summarized
\* nothing: the list is the one before the call.
FailedAtOnce ==
    /\ heard.op = "fail"
    /\ heard.chunks = <<>>
    /\ context[heard.owner].messages = heard.before
    /\ Len(heard.before) >= 2

\* C24: when the caller abandons a stream mid-flight (closes the generator
\* or is interrupted), the partial response is discarded and the triggering
\* user message is removed: the message list equals its value before the
\* call.
C24_AbandonRestores ==
    heard.op = "abandon" => context[heard.owner].messages = heard.before

\* A stream was abandoned after a fragment and the user message of the
\* call is still the last message of the conversation.
AbandonedKeepsUserMessage ==
    /\ heard.op = "abandon"
    /\ Len(heard.chunks) >= 1
    /\ context[heard.owner].messages = heard.sent
    /\ heard.sent[Len(heard.sent)].role = "user"

\* A reply holds a tech-stack block: a block that opens with the version
\* line, has the project_type key and parses.  Likewise a layers block.
HoldsTechStack(blocks) ==
    \E i \in 1..Len(blocks) : blocks[i].version /\ blocks[i].project_type /\ blocks[i].valid
HoldsLayers(blocks) ==
    \E i \in 1..Len(blocks) : blocks[i].version /\ blocks[i].layers /\ blocks[i].valid

\* C25: TechnicalArchitectPhase.parse_output reports success if and only if
\* both the tech-stack block and the layers block were found and parsed;
\* when exactly one of the two is missing the result is a failure whose
\* message names the block that is missing.
C25_BothBlocksOrNamed ==
    Applied("architect.parse_output") =>
        LET blocks == Val(input)
            out == Val(output).ret
        IN /\ out.success <=> (HoldsTechStack(blocks) /\ HoldsLayers(blocks))
           /\ (HoldsTechStack(blocks) /\ ~HoldsLayers(blocks)) =>
                  (~out.success /\ out.message = "Failed to parse layers")
           /\ (HoldsLayers(blocks) /\ ~HoldsTechStack(blocks)) =>
                  (~out.success /\ out.message = "Failed to parse tech stack")

\* A reply with a tech-stack block and no other block is answered with the
\* message that names both blocks.
OnlyTechStackUnnamed ==
    /\ Applied("architect.parse_output")
    /\ Len(Val(input)) = 1
    /\ HoldsTechStack(Val(input))
    /\ ~Val(input)[1].layers
    /\ Val(output).ret.message =
           "Could not parse architecture output. Expected tech-stack and layers YAML blocks."

\* A reply with a tech-stack block followed by a layers block, each well
\* formed, is answered with a failure to parse the layers.
TwoBlocksFail ==
    /\ Applied("architect.parse_output")
    /\ Len(Val(input)) = 2
    /\ Val(input)[1] = [version |-> TRUE, project_type |-> TRUE, layers |-> FALSE, valid |-> TRUE]
    /\ Val(input)[2] = [version |-> TRUE, project_type |-> FALSE, layers |-> TRUE, valid |-> TRUE]
    /\ ~Val(output).ret.success
    /\ Val(output).ret.message = "Failed to parse layers"

\* A reply with one block holding the keys of both documents succeeds.
MergedBlockSucceeds ==
    /\ Applied("architect.parse_output")
    /\ Len(Val(input)) = 1
    /\ Val(output).ret.success

\* C26: a layer-planner reply whose groups block parses to an empty groups
\* list yields a failure: no groups document is saved for it, no checkpoint
\* is created for it, and no layer is added to completed_layers on its
\* account.  So no saved groups document and no layer-planning checkpoint
\* is ever one of zero groups, and every completed layer has a group.
C26_EmptyGroupsFail ==
    /\ \A l \in LayerIds :
           ~IsNone(groups_yaml[l]) => Len(Val(groups_yaml[l]).groups) >= 1
    /\ ~IsNone(session) =>
           /\ \A c \in Range(Val(session).checkpoints) :
                  c.phase = LAYER_PLANNING => c.description >= 1
           /\ \A l \in Range(Val(session).completed_layers) :
                  ~IsNone(groups_yaml[l]) => Len(Val(groups_yaml[l]).groups) >= 1

\* A layer whose groups document lists no group is in completed_layers.
EmptyLayerCompleted ==
    /\ ~IsNone(session)
    /\ \E l \in Range(Val(session).completed_layers) :
           ~IsNone(groups_yaml[l]) /\ Len(Val(groups_yaml[l]).groups) = 0

\* C27: a successful layer-planning run requested for layer L writes its
\* groups document at planning/groups/L/groups.yaml and creates or changes
\* the groups document of no other layer, whatever layer_id the reply
\* carries.
C27_WritesRequestedLayer ==
    [][(last'.op = "continue_planning" /\ last'.success
            /\ Offered.action = "layer_planning") =>
           LET L == Offered.layer_id
           IN /\ ~IsNone(groups_yaml'[L])
              /\ last'.artifacts = <<"planning/groups/" \o L \o "/groups.yaml">>
              /\ \A l \in LayerIds \ {L} : groups_yaml'[l] = groups_yaml[l]]_vars

\* Layer planning for L1 succeeded and left a groups document for L2 only.
WroteOtherLayer ==
    /\ last.op = "continue_planning"
    /\ last.success
    /\ ~IsNone(session)
    /\ Val(session).current_phase = LAYER_PLANNING
    /\ Val(session).current_layer_id = "L1"
    /\ IsNone(groups_yaml["L1"])
    /\ last.artifacts = <<"planning/groups/L2/groups.yaml">>

\* C28: GroupPlannerPhase.parse_output on a reply with no task block
\* returns a failure with an empty task_ids list; on a reply with N >= 1
\* well-formed task blocks, fenced or not, it returns success with exactly
\* N task ids, in the order of the blocks.
C28_OneIdPerBlock ==
    Applied("group.parse_output") =>
        LET N == Len(Val(input))
            out == Val(output).ret
        IN IF N = 0
           THEN ~out.success /\ out.task_ids = <<>>
           ELSE out.success /\ out.task_ids = [n \in 1..N |-> TaskId(n)]

\* Two fenced task blocks laid out as the prompt asks, one after the other,
\* yield one task id.
TwoTasksOneId ==
    /\ Applied("group.parse_output")
    /\ Val(input) = <<[fenced |-> TRUE, code |-> TRUE, tail |-> FALSE, prose |-> FALSE],
                      [fenced |-> TRUE, code |-> TRUE, tail |-> FALSE, prose |-> FALSE]>>
    /\ Val(output).ret.task_ids = <<"T-001">>

\* Two fenced task blocks that each end with a code block yield two ids.
TwoTasksTwoIds ==
    /\ Applied("group.parse_output")
    /\ Len(Val(input)) = 2
    /\ Val(output).ret.task_ids = <<"T-001", "T-002">>

\* C29: for every TechStack, LayerDefinition, GroupDefinition and
\* PlanningSession value x, optional fields absent, lists empty and
\* checkpoints in every status included, from_dict(to_dict(x)) equals x on
\* every field.
C29_RoundTrip ==
    Applied("round_trip") => Val(output).ret = Val(input).value

\* A group whose contracts are an empty GroupContract was written and read
\* back with its contracts.
C29_Witness ==
    /\ Applied("round_trip")
    /\ Val(input).cls = "GroupDefinition"
    /\ Len(Val(input).value.groups) = 1
    /\ Val(input).value.groups[1].contracts = Some([exports |-> <<>>, interfaces |-> <<>>])
    /\ Val(output).ret.groups[1].contracts # None

\* A session whose target_repo is the empty path and whose checkpoint was
\* rejected without an approval stamp was written and read back.
SessionRoundTripped ==
    /\ Applied("round_trip")
    /\ Val(input).cls = "PlanningSession"
    /\ Val(input).value.target_repo = Some(<<>>)
    /\ Len(Val(input).value.checkpoints) = 1
    /\ Val(input).value.checkpoints[1].status = REJECTED
    /\ Val(input).value.checkpoints[1].approved_at = None
    /\ Val(output).ret.target_repo = Some(<<>>)

\* A tech stack without runtime and database, with a testing config at its
\* defaults and no framework, was written and read back.
TechStackRoundTripped ==
    /\ Applied("round_trip")
    /\ Val(input).cls = "TechStack"
    /\ Val(input).value.runtime = None
    /\ Val(input).value.frameworks = {}
    /\ Val(input).value.testing = Some([unit |-> "", e2e |-> "", integration |-> ""])
    /\ Val(output).ret.testing # None

\* The step appended an architect checkpoint to the session.
ArchitectCheckpointAdded ==
    /\ ~IsNone(session')
    /\ Len(Val(session').checkpoints) >
           (IF IsNone(session) THEN 0 ELSE Len(Val(session).checkpoints))
    /\ Val(session').checkpoints[Len(Val(session').checkpoints)].phase = ARCHITECT

\* C30: after a successful architect phase a failure of the documentation
\* fetch is absorbed: the call that created the architect checkpoint raises
\* nothing, and returns the successful phase result.
C30_FetchFailureAbsorbed ==
    [][(last'.op = "continue_planning" /\ ArchitectCheckpointAdded) =>
           (last'.error = "" /\ last'.success)]_vars

\* The architect checkpoint and the documents are the same whether the
\* fetch returns or raises.
FetchFailureKeepsCheckpoint ==
    \A reply \in ArchReplies :
        RunArchitectPhase(World, reply, now).w =
            RunArchitectPhase(World, [reply EXCEPT !.fetch = FETCHED], now).w

\* continue_planning raised from the documentation fetch and left a pending
\* architect checkpoint.
FetchRaisedAfterCheckpoint ==
    /\ last.op = "continue_planning"
    /\ last.error = "Documentation fetch failed"
    /\ ~IsNone(session)
    /\ \E i \in 1..Len(Val(session).checkpoints) :
           /\ Val(session).checkpoints[i].phase = ARCHITECT
           /\ Val(session).checkpoints[i].status = PENDING

\* The exports of the groups of doc other than the group group_id.
DependencyExports(doc, group_id) ==
    UNION {Range(Val(doc.groups[i].contracts).exports) :
               i \in {k \in 1..Len(doc.groups) :
                          doc.groups[k].id # group_id /\ ~IsNone(doc.groups[k].contracts)}}

\* The exports of the group group_id itself.
OwnExports(doc, group_id) ==
    UNION {Range(Val(doc.groups[i].contracts).exports) :
               i \in {k \in 1..Len(doc.groups) :
                          doc.groups[k].id = group_id /\ ~IsNone(doc.groups[k].contracts)}}

\* C31: the group context of a target group exposes only the interfaces of
\* the groups it depends on: two groups documents that differ only in the
\* exports of a group other than the target give the same text, and no
\* export entry of such a group appears in it (an entry in the text is an
\* export of the target itself).
C31_InterfacesOnly ==
    Applied("build_group_context") =>
        /\ Val(output).ret.text = Val(output).ret.other
        /\ \A e \in DependencyExports(Val(input).doc, "g2") :
               ExportLine(e) \in Range(Val(output).ret.text) =>
                   e \in OwnExports(Val(input).doc, "g2")

\* The target depends on g1, g1 has an interface and exports, the two
\* documents differ in g1's exports, and the text shows g1's interface.
C31_Witness ==
    /\ Applied("build_group_context")
    /\ Val(input).doc # Val(input).other
    /\ DependencyExports(Val(input).doc, "g2") # {}
    /\ "### From Types" \in Range(Val(output).ret.text)
    /\ "interface IRepo {" \in Range(Val(output).ret.text)

\* Every group of layer l's groups document is in completed_groups of s.
GroupsAllIn(w, s, l) ==
    /\ ~IsNone(LoadGroups(w, l))
    /\ \A k \in 1..Len(Val(LoadGroups(w, l)).groups) :
           Val(LoadGroups(w, l)).groups[k].id \in Range(s.completed_groups)

\* C32: get_next_action changes nothing except completion tracking: the
\* checkpoint list, completed_groups, current_layer_id, current_group_id
\* and the planning artifacts stay as they were; completed_layers changes
\* only by appending layers all of whose groups are completed; current_phase
\* changes only to completed, in the call that returns "completed".
C32_OnlyCompletionTracking ==
    [][last'.op = "get_next_action" =>
           /\ <<tech_stack', layers_yaml', groups_yaml'>> = <<tech_stack, layers_yaml, groups_yaml>>
           /\ IF IsNone(Loaded(World).session) THEN IsNone(session')
              ELSE LET old == Val(Loaded(World).session)
                       new == Val(session')
                   IN /\ new.checkpoints = old.checkpoints
                      /\ new.completed_groups = old.completed_groups
                      /\ new.current_layer_id = old.current_layer_id
                      /\ new.current_group_id = old.current_group_id
                      /\ Len(new.completed_layers) >= Len(old.completed_layers)
                      /\ SubSeq(new.completed_layers, 1, Len(old.completed_layers))
                             = old.completed_layers
                      /\ \A k \in (Len(old.completed_layers) + 1)..Len(new.completed_layers) :
                             GroupsAllIn(World, old, new.completed_layers[k])
                      /\ new.current_phase # old.current_phase =>
                             /\ new.current_phase = COMPLETED
                             /\ last'.result.action = "completed"]_vars

\* get_next_action returned "completed" in a session that has group
\* pointers set, a completed layer and a completed group.
C32_Witness ==
    /\ last.op = "get_next_action"
    /\ last.result.action = "completed"
    /\ Val(session).current_phase = COMPLETED
    /\ Val(session).completed_layers # <<>>
    /\ Val(session).completed_groups # <<>>
    /\ Val(session).current_group_id # NoneId

\* C33: checkpoint ids are sequential and unique within a session: the
\* k-th checkpoint created has the id cp-k with three digits, no two
\* checkpoints of the session share an id, and an approve_checkpoint or
\* reject_checkpoint changes exactly the one checkpoint it returns.
C33_SequentialUniqueIds ==
    [][~IsNone(session') =>
           LET new == Val(session').checkpoints
           IN /\ \A k \in 1..Len(new) : new[k].id = k
              /\ \A i, j \in 1..Len(new) :
                     CheckpointId(new[i].id) = CheckpointId(new[j].id) => i = j
              /\ (Len(new) >= 1 /\ Len(new) < 10) =>
                     CheckpointId(new[Len(new)].id) = "cp-00" \o ToString(Len(new))
              /\ (last'.op \in {"approve_checkpoint", "reject_checkpoint"} /\ ~IsNone(session)) =>
                     LET old == Val(session).checkpoints
                     IN /\ Len(new) = Len(old)
                        /\ {i \in 1..Len(old) : new[i] # old[i]} =
                               (IF last'.ret = 0 THEN {} ELSE {last'.ret})]_vars

\* The second checkpoint of a session, created after the first was
\* rejected, has been approved.
C33_Witness ==
    /\ last.op = "approve_checkpoint"
    /\ last.ret = 2
    /\ Val(session).checkpoints[1].status = REJECTED
    /\ Val(session).checkpoints[2].status = APPROVED
    /\ CheckpointId(Val(session).checkpoints[2].id) = "cp-002"

\* A run of the step succeeded, in this session or an earlier one.
Ran(action, layer_id, group_id) ==
    \E current \in BOOLEAN : Step(action, layer_id, group_id, current) \in planned

\* A run of the step succeeded in the session the orchestrator holds.
RanHere(action, layer_id, group_id) == Step(action, layer_id, group_id, TRUE) \in planned

\* The layers of the layers document and the groups of a layer's document
\* (none when the document is missing).
LayersListed == IF IsNone(layers_yaml) THEN <<>> ELSE Val(layers_yaml).layers
GroupsListed(layer_id) ==
    IF IsNone(groups_yaml[layer_id]) THEN <<>> ELSE Val(groups_yaml[layer_id]).groups

\* get_next_action has just answered "completed".
AnsweredCompleted == last.op = "get_next_action" /\ last.result.action = "completed"

\* C34: get_next_action returns "completed" only if an architect run
\* produced a layers document, every layer of it had a successful
\* layer-planning run, and every group of every layer had a successful
\* group-planning run for that layer and group.
C34_CompletedOnlyAfterAllRuns ==
    AnsweredCompleted =>
        /\ ~IsNone(layers_yaml)
        /\ Ran("architect", NoneId, NoneId)
        /\ \A i \in 1..Len(LayersListed) :
               LET layer_id == LayersListed[i].id
               IN /\ Ran("layer_planning", layer_id, NoneId)
                  /\ \A k \in 1..Len(GroupsListed(layer_id)) :
                         Ran("group_planning", layer_id, GroupsListed(layer_id)[k].id)

\* "completed" is answered in the session that ran the architect and both
\* layer plannings, each reply naming the layer it was asked for, while a
\* group of a layer never had a run: its id was completed for the other
\* layer.
C34_RepeatedIdSkipped ==
    /\ AnsweredCompleted
    /\ RanHere("architect", NoneId, NoneId)
    /\ \A i \in 1..Len(LayersListed) : RanHere("layer_planning", LayersListed[i].id, NoneId)
    /\ \A p \in planned : p.current
    /\ ~IsNone(groups_yaml["L1"]) /\ ~IsNone(groups_yaml["L2"])
    /\ Len(LayersListed) = 2
    /\ Cardinality({p \in planned : p.action = "layer_planning"}) = 2
    /\ \E k \in 1..Len(GroupsListed("L2")) :
           ~Ran("group_planning", "L2", GroupsListed("L2")[k].id)

\* C35: no step is offered again after it succeeded: once a phase run for
\* a step returned success, no later get_next_action of the same session
\* answers that step's action with the same ids, whether the checkpoint of
\* the run was approved or rejected.
C35_NeverOfferedAgain ==
    (last.op = "get_next_action" /\ last.result.action \in {"architect", "layer_planning", "group_planning"})
        => StepOf(last.result) \notin planned

\* A step offered after a run of it succeeded is the planning of a layer
\* that still has no groups document.
C35_OnlyLayerWithoutDocument ==
    C35_NeverOfferedAgain
        \/ (last.result.action = "layer_planning" /\ IsNone(groups_yaml[last.result.layer_id]))

\* The groups with a successful group-planning run in the session held,
\* by the ledger pl.
GroupsPlannedHere(pl) ==
    {p.group_id : p \in {q \in pl : q.current /\ q.action = "group_planning"}}

\* C36: a group id enters completed_groups in the very call in which its
\* group-planning run succeeds, the checkpoint of the run still PENDING;
\* after every step completed_groups is exactly the set of groups with a
\* successful group-planning run in the session, each listed once, and
\* approve_checkpoint and reject_checkpoint leave the list as it was.
C36_CompletedGroupsAreSuccessfulRuns ==
    [][/\ ~IsNone(session') =>
              /\ Range(Val(session').completed_groups) = GroupsPlannedHere(planned')
              /\ NoDuplicates(Val(session').completed_groups)
       /\ (last'.op = "continue_planning" /\ last'.success /\ Offered.action = "group_planning") =>
              /\ Offered.group_id \in Range(Val(session').completed_groups)
              /\ Offered.group_id \notin Range(Val(Loaded(World).session).completed_groups)
              /\ Cardinality(Pending(Val(session'))) = 1
              /\ Val(GetPendingCheckpoint(Val(session'))).phase = GROUP_PLANNING
              /\ Val(GetPendingCheckpoint(Val(session'))).id = Len(Val(session').checkpoints)
       /\ (last'.op \in {"approve_checkpoint", "reject_checkpoint"} /\ ~IsNone(session)) =>
              Val(session').completed_groups = Val(session).completed_groups]_vars

\* Two groups were planned and the checkpoint of the second run has been
\* rejected: both are in completed_groups.
C36_Witness ==
    /\ last.op = "reject_checkpoint"
    /\ last.ret # 0
    /\ Val(session).checkpoints[last.ret].phase = GROUP_PLANNING
    /\ Val(session).checkpoints[last.ret].status = REJECTED
    /\ Len(Val(session).completed_groups) = 2
    /\ GroupsPlannedHere(planned) = {"g1", "g2"}

\* C37: in every reachable state each layer id in completed_layers has a
\* groups document and every group listed in that document is in
\* completed_groups: a layer enters completed_layers only when this holds
\* and no later operation invalidates it.
C37_CompletedLayersStayComplete ==
    ~IsNone(session) =>
        \A i \in 1..Len(Val(session).completed_layers) :
            GroupsAllIn(World, Val(session), Val(session).completed_layers[i])

\* A layer enters completed_layers, by get_next_action (also the one at
\* the head of continue_planning) or by approve_checkpoint, only when at
\* that moment it has a groups document whose groups are all in
\* completed_groups.
C37_AddedOnlyWhenComplete ==
    [][(~IsNone(session') /\ ~IsNone(Loaded(World).session) /\ last'.op # "start_planning") =>
           LET old == Val(Loaded(World).session)
               new == Val(session').completed_layers
           IN \A k \in (Len(old.completed_layers) + 1)..Len(new) :
                  GroupsAllIn(World, old, new[k])]_vars

\* C38: whenever a checkpoint is PENDING, current_phase is the phase of
\* that checkpoint; for a layer_planning checkpoint current_layer_id is the
\* layer the run planned, for a group_planning checkpoint current_group_id
\* is the group the run planned.  The run is the continue_planning step
\* that created the checkpoint, and what it planned is the step offered
\* to it; while the checkpoint stays PENDING the pointers stay.
C38_PendingMatchesSession ==
    [][~IsNone(session') =>
           LET new == Val(session')
               before == Loaded(World).session
           IN \A i \in Pending(new) :
                  LET cp == new.checkpoints[i]
                      created == IsNone(before) \/ i > Len(Val(before).checkpoints)
                  IN /\ cp.phase = new.current_phase
                     /\ created => /\ last'.op = "continue_planning" /\ last'.success
                                   /\ cp.phase = LAYER_PLANNING =>
                                          new.current_layer_id = Offered.layer_id
                                   /\ cp.phase = GROUP_PLANNING =>
                                          new.current_group_id = Offered.group_id
                     /\ ~created => /\ i \in Pending(Val(before))
                                    /\ cp.phase = LAYER_PLANNING =>
                                           new.current_layer_id = Val(before).current_layer_id
                                    /\ cp.phase = GROUP_PLANNING =>
                                           new.current_group_id = Val(before).current_group_id]_vars

\* get_next_action answers "checkpoint" for the PENDING checkpoint of the
\* group-planning run for g1 of layer L2, made after the layer-planning
\* run for L2.
C38_Witness ==
    /\ last.op = "get_next_action"
    /\ last.result.action = "checkpoint"
    /\ last.result.phase = GROUP_PLANNING
    /\ Val(session).current_phase = GROUP_PLANNING
    /\ Val(session).current_layer_id = "L2"
    /\ Val(session).current_group_id = "g1"
    /\ Cardinality(Pending(Val(session))) = 1

\* The session is in the phase that get_next_action sets when it answers
\* "completed".
IsCompleted(o) == ~IsNone(o) /\ Val(o).current_phase = COMPLETED

\* C39: "completed" is absorbing.  When get_next_action answers
\* "completed" the phase is completed; from then on, under get_next_action,
\* continue_planning, approve_checkpoint and reject_checkpoint, the phase
\* stays completed, every get_next_action answers "completed", every
\* continue_planning raises without calling the LLM, and approve and
\* reject find nothing to settle.
C39_CompletedIsAbsorbing ==
    [][/\ (last'.op = "get_next_action" /\ last'.result.action = "completed") =>
              IsCompleted(session')
       /\ (IsCompleted(session) /\ last'.op # "start_planning") =>
              /\ IsCompleted(session')
              /\ last'.op = "get_next_action" => last'.result.action = "completed"
              /\ last'.op = "continue_planning" =>
                     /\ last'.error = "Planning is complete"
                     /\ ~last'.llm /\ ~last'.success
                     /\ <<tech_stack', layers_yaml', groups_yaml'>> =
                            <<tech_stack, layers_yaml, groups_yaml>>
              /\ last'.op \in {"approve_checkpoint", "reject_checkpoint"} => last'.ret = 0]_vars

\* After "completed" was answered for a project with a planned layer,
\* continue_planning has raised and the phase is still completed.
C39_Witness ==
    /\ IsCompleted(session)
    /\ last.op = "continue_planning"
    /\ last.error = "Planning is complete"
    /\ Len(Val(session).completed_layers) = 1
    /\ Len(Val(session).checkpoints) = 2

\* C40: when the LLM stream raises during a phase run started by
\* continue_planning, the error reaches the caller, no checkpoint is
\* created, no planning document is written, completed_groups is as it
\* was, and the next get_next_action answers the action and ids it
\* answered before the run.
C40_StreamFailureChangesNoProgress ==
    [][(last'.op = "continue_planning" /\ last'.llm /\ last'.error = "LLM request failed") =>
           LET before == Val(Loaded(World).session)
               after == Val(session')
           IN /\ ~last'.success /\ last'.artifacts = <<>>
              /\ after.checkpoints = before.checkpoints
              /\ after.completed_groups = before.completed_groups
              /\ <<tech_stack', layers_yaml', groups_yaml'>> =
                     <<tech_stack, layers_yaml, groups_yaml>>
              /\ Offered \in {NextAction(a, l, g, 0, "") :
                                 a \in {"architect", "layer_planning", "group_planning"},
                                 l \in LayerIds \cup {NoneId}, g \in GroupIds \cup {NoneId}}
              /\ Offered' = Offered]_vars

\* The stream raised during the group-planning run for g1, and g1 is what
\* get_next_action offers.
C40_Witness ==
    /\ last.op = "continue_planning"
    /\ last.error = "LLM request failed"
    /\ Val(session).current_phase = GROUP_PLANNING
    /\ Val(session).current_group_id = "g1"
    /\ Val(session).completed_groups = <<>>
    /\ Offered.action = "group_planning"
    /\ Offered.group_id = "g1"

====
